---- MODULE Spec2Model ----
(***************************************************************************)
(* State-machine model of the RBAC backend (backend/auth.py and the route  *)
(* handlers in backend/routes/).  The database tables (users, groups,      *)
(* user_groups), the session tokens held by clients, the wall clock and    *)
(* the request being served are the state.  A handler is split at the      *)
(* database round trips where another request can run in between: the      *)
(* dependency resolution (get_current_user and the role gate), the reads   *)
(* of the handler body, and each commit.  req is the request under         *)
(* observation, with its response once it is answered; the requests of     *)
(* other clients run to completion between two of its steps.               *)
(*                                                                         *)
(* Strings that the code normalises (strip, lower) are sequences of atoms: *)
(* an atom is either the whitespace atom " " or a run of non-blank         *)
(* characters.  Time is counted in ticks of half a second, because the     *)
(* token library truncates instants to whole seconds.                      *)
(***************************************************************************)
EXTENDS Integers, Sequences, FiniteSets, TLC

VARIABLES users, nextUserId, groups, nextGroupId, members, tokens, now, req

vars == <<users, nextUserId, groups, nextGroupId, members, tokens, now, req>>

----------------------------------------------------------------------------
(* Bounds of the model *)

\* largest user id the users table hands out
MaxUsers == 3
\* largest group id the groups table hands out
MaxGroups == 1
\* tokens that clients hold at the same time
MaxTokens == 2
\* tokens are issued during the first MaxJitter ticks of the clock
MaxJitter == 1

----------------------------------------------------------------------------
(* Program constants *)

ACCESS_TOKEN_EXPIRE_MINUTES == 30
VERIFICATION_EXPIRE_HOURS == 24
PASSWORD_RESET_EXPIRE_HOURS == 1
BCRYPT_ROUNDS == 12
SECRET_KEY == "your-secret-key-change-in-production"
ALGORITHM == "HS256"

\* resolution of the model clock: ticks per second
TicksPerSecond == 2

----------------------------------------------------------------------------
(* Python string operations on atom sequences *)

WS == " "

RECURSIVE lstrip(_)
lstrip(s) == IF s = <<>> THEN s
             ELSE IF Head(s) = WS THEN lstrip(Tail(s)) ELSE s

RECURSIVE rstrip(_)
rstrip(s) == IF s = <<>> THEN s
             ELSE IF s[Len(s)] = WS THEN rstrip(SubSeq(s, 1, Len(s) - 1)) ELSE s

strip(s) == rstrip(lstrip(s))

lower_atom(a) == CASE a = "ADMIN" -> "admin"
                   [] a = "Admin" -> "admin"
                   [] a = "Manager" -> "manager"
                   [] a = "User" -> "user"
                   [] a = "Owner" -> "owner"
                   [] a = "Member" -> "member"
                   [] OTHER -> a

lower(s) == [i \in DOMAIN s |-> lower_atom(s[i])]

----------------------------------------------------------------------------
(* roles table, seeded at startup *)

Roles == {[id |-> 1, name |-> <<"user">>],
          [id |-> 2, name |-> <<"manager">>],
          [id |-> 3, name |-> <<"admin">>]}

\* select(Role).where(Role.name == role_name): the rows found
role_by_name(role_name) == {r \in Roles : r.name = role_name}

\* user.role.name through the role_id foreign key
role_name_of(u) == (CHOOSE r \in Roles : r.id = u.role_id).name

----------------------------------------------------------------------------
(* Credential hasher (auth.py) *)

\* hashlib.sha256(password.encode("utf-8")).digest(): a digest that differs
\* for different passwords of the model
_prehash_password(password) == [sha256 |-> password]

\* bcrypt.hashpw(prehashed, salt) with the salt that bcrypt.gensalt drew
get_password_hash(password, salt) ==
    [rounds |-> BCRYPT_ROUNDS, salt |-> salt, digest |-> _prehash_password(password)]

\* a stored string that is no bcrypt hash, as "$2b$12$dummy"
DummyHash == [malformed |-> "$2b$12$dummy"]

\* bcrypt.checkpw raises ValueError("Invalid salt") on a malformed hash
verify_password_raises(plain_password, hashed_password) ==
    "salt" \notin DOMAIN hashed_password

\* verify_password as it would be if it stripped the password it is given
verify_password_strips(plain_password, hashed_password) ==
    /\ ~verify_password_raises(plain_password, hashed_password)
    /\ [rounds |-> hashed_password.rounds, salt |-> hashed_password.salt,
        digest |-> _prehash_password(strip(plain_password))] = hashed_password

verify_password(plain_password, hashed_password) ==
    /\ ~verify_password_raises(plain_password, hashed_password)
    /\ [rounds |-> hashed_password.rounds, salt |-> hashed_password.salt,
        digest |-> _prehash_password(plain_password)] = hashed_password

----------------------------------------------------------------------------
(* Token service (auth.py) *)

SessionTicks == ACCESS_TOKEN_EXPIRE_MINUTES * 60 * TicksPerSecond
VerificationTicks == VERIFICATION_EXPIRE_HOURS * 3600 * TicksPerSecond
PasswordResetTicks == PASSWORD_RESET_EXPIRE_HOURS * 3600 * TicksPerSecond

\* timegm(d.utctimetuple()): an instant truncated to whole seconds
timegm(t) == t \div TicksPerSecond

\* jwt.encode(to_encode, key): claims signed with key; exp becomes an integer
jwt_encode(to_encode, key) ==
    [payload |-> [exp |-> timegm(to_encode.exp)] @@ to_encode, key |-> key]

\* create_access_token as it would be with to_encode.setdefault("exp", expire)
create_access_token_keeps_exp(data, expires_delta, t) ==
    LET expire == IF expires_delta # 0 THEN t + expires_delta ELSE t + SessionTicks
    IN  jwt_encode(data @@ [exp |-> expire], SECRET_KEY)

\* expires_delta of 0 stands for None (both are falsy in the code)
create_access_token(data, expires_delta, t) ==
    LET expire == IF expires_delta # 0 THEN t + expires_delta ELSE t + SessionTicks
    IN  jwt_encode([exp |-> expire] @@ data, SECRET_KEY)

create_verification_token(user_id, email, t) ==
    create_access_token([user_id |-> user_id, email |-> email,
                         type |-> "email_verification"], VerificationTicks, t)

create_password_reset_token(user_id, email, t) ==
    create_access_token([user_id |-> user_id, email |-> email,
                         type |-> "password_reset"], PasswordResetTicks, t)

\* the payload jwt.decode returns when it does not raise
jwt_decode(token) == token.payload

\* jwt.decode as it would be if it did not look at exp
jwt_decode_ignores_exp(token, t) == token.key # SECRET_KEY

\* jwt.decode(token, SECRET_KEY) raises JWTError: bad signature, or exp < now
jwt_decode_raises(token, t) ==
    \/ token.key # SECRET_KEY
    \/ ("exp" \in DOMAIN token.payload /\ token.payload.exp < timegm(t))

\* verify_verification_token as it would be without its check of "type"
verify_verification_token_any_type(token, t) == ~jwt_decode_raises(token, t)

\* TRUE when the function returns the payload, FALSE when it returns None
verify_verification_token(token, t) ==
    /\ ~jwt_decode_raises(token, t)
    /\ "type" \in DOMAIN token.payload
    /\ token.payload.type = "email_verification"

verify_password_reset_token(token, t) ==
    /\ ~jwt_decode_raises(token, t)
    /\ "type" \in DOMAIN token.payload
    /\ token.payload.type = "password_reset"

----------------------------------------------------------------------------
(* Principal resolver and system-role gates (auth.py) *)

\* ids of the rows that select(User).where(User.username == username) returns
get_user_by_username(username) == {id \in DOMAIN users : users[id].username = username}

get_user_by_email(email) == {id \in DOMAIN users : users[id].email = email}

get_user_by_id(user_id) == {id \in DOMAIN users : id = user_id}

\* what a client sends that has no Authorization header
NoHeader == [header |-> "absent"]

\* a token with the claims of token, signed with a key that is not SECRET_KEY
Forged(token) == [token EXCEPT !.key = "another-key"]

\* Security(security_scheme): HTTPBearer answers 401 "Not authenticated" when
\* the request has no Authorization header, before get_current_user runs
get_bearer_token_raises(credentials) == "key" \notin DOMAIN credentials

\* get_current_user as it would be if jwt.decode did not verify the signature
get_current_user_unverified(token) ==
    IF "exp" \in DOMAIN token.payload /\ token.payload.exp < timegm(now) THEN 0
    ELSE IF "sub" \notin DOMAIN token.payload THEN 0
    ELSE IF get_user_by_username(token.payload.sub) = {} THEN 0
    ELSE CHOOSE id \in get_user_by_username(token.payload.sub) : TRUE

\* the id of the authenticated user, or 0 for credentials_exception (401)
get_current_user(token) ==
    IF jwt_decode_raises(token, now) THEN 0
    ELSE IF "sub" \notin DOMAIN token.payload THEN 0
    ELSE IF get_user_by_username(token.payload.sub) = {} THEN 0
    ELSE CHOOSE id \in get_user_by_username(token.payload.sub) : TRUE

\* get_current_active_user as it would be if it refused a disabled account
get_current_active_user_checks_flag(token) ==
    IF get_current_user(token) # 0 /\ ~users[get_current_user(token)].is_active THEN 0
    ELSE get_current_user(token)

get_current_active_user(token) == get_current_user(token)

\* require_admin as it would be if it only required an authenticated user
require_admin_any_role(current_user) == TRUE

\* TRUE when the dependency returns current_user, FALSE when it raises 403
require_admin(current_user) == role_name_of(users[current_user]) = <<"admin">>

\* require_group_manager as it would be if it admitted every role
require_group_manager_any_role(current_user) == TRUE

\* require_group_manager as it would be if it admitted admins only
require_group_manager_admin_only(current_user) ==
    role_name_of(users[current_user]) = <<"admin">>

require_group_manager(current_user) ==
    role_name_of(users[current_user]) \in {<<"admin">>, <<"manager">>}

require_user(current_user) == TRUE

\* verify_password raising inside authenticate_user reaches the caller
authenticate_user_raises(username, password) ==
    \E id \in get_user_by_username(username) :
        verify_password_raises(password, users[id].hashed_password)

\* authenticate_user: the ids it returns (none: unknown user or wrong password)
authenticate_user(username, password) ==
    {id \in get_user_by_username(username) :
        verify_password(password, users[id].hashed_password)}

----------------------------------------------------------------------------
(* Requests *)

\* the request under observation: its inputs, the principal its dependencies
\* resolved (cur, role), the step it is at, and its response once answered
\* (seen: the column value the body loaded, which the ORM compares at the flush)
\* token: the bearer token presented; issued: the token in the response
\* args: the arguments of a token function called directly
NoReq == [op |-> "none", pc |-> "idle", cur |-> 0, role |-> <<>>, target |-> 0,
          group |-> 0, rolearg |-> <<>>, flag |-> FALSE, name |-> <<>>, uname |-> <<>>,
          pw |-> <<>>, email |-> <<>>, seen |-> <<>>, status |-> 0, detail |-> "",
          token |-> {}, issued |-> {}, args |-> <<>>, course |-> 0]

InFlight == req.pc \in {"body", "commit", "commit2"}

\* the tables as they are, for a step that writes nothing
Keep == [users |-> users, nextUserId |-> nextUserId, groups |-> groups,
         nextGroupId |-> nextGroupId, members |-> members]

\* a step's outcome: the response (status 0: the handler goes on to pc) and
\* the tables after it
Out(status, detail) ==
    [status |-> status, detail |-> detail, pc |-> "done", db |-> Keep, seen |-> <<>>]

GoOn(pc) == [status |-> 0, detail |-> "", pc |-> pc, db |-> Keep, seen |-> <<>>]

\* the body goes on to the commit with the column value it loaded
Loaded(seen) == [status |-> 0, detail |-> "", pc |-> "commit", db |-> Keep, seen |-> seen]

\* a commit that is followed by another one
WroteOn(pc, db) == [status |-> 0, detail |-> "", pc |-> pc, db |-> db, seen |-> <<>>]

Wrote(status, detail, db) ==
    [status |-> status, detail |-> detail, pc |-> "done", db |-> db, seen |-> <<>>]

Apply(r, out) ==
    /\ req' = [r EXCEPT !.pc = out.pc, !.status = out.status, !.detail = out.detail,
                        !.seen = out.seen]
    /\ users' = out.db.users
    /\ nextUserId' = out.db.nextUserId
    /\ groups' = out.db.groups
    /\ nextGroupId' = out.db.nextGroupId
    /\ members' = out.db.members
    /\ UNCHANGED <<tokens, now>>

\* the dependencies as they would be if require_admin read the role claim of
\* the token instead of current_user.role
Deps_trusts_role_claim(gate, token) ==
    LET current_user == get_current_active_user(token) IN
    IF get_bearer_token_raises(token) THEN Out(401, "Not authenticated")
    ELSE IF current_user = 0 THEN Out(401, "Could not validate credentials")
    ELSE IF gate = "admin" /\ token.payload.role # <<"admin">>
         THEN Out(403, "Access denied. Required role: admin")
    ELSE IF gate = "group_manager" /\ ~require_group_manager(current_user)
         THEN Out(403, "Access denied. Required role: admin or manager")
    ELSE GoOn("body")

\* dependency resolution of a protected endpoint: get_current_user, then the
\* gate; what it answers when it rejects, or (0) that the handler body runs
Deps(gate, token) ==
    LET current_user == get_current_active_user(token) IN
    IF get_bearer_token_raises(token) THEN Out(401, "Not authenticated")
    ELSE IF current_user = 0 THEN Out(401, "Could not validate credentials")
    ELSE IF gate = "admin" /\ ~require_admin(current_user)
         THEN Out(403, "Access denied. Required role: admin")
    ELSE IF gate = "group_manager" /\ ~require_group_manager(current_user)
         THEN Out(403, "Access denied. Required role: admin or manager")
    ELSE GoOn("body")

\* the request r arrives with token: its dependencies are resolved
Begin(r, gate, token) ==
    /\ ~InFlight
    /\ LET current_user == IF get_bearer_token_raises(token) THEN 0
                           ELSE get_current_active_user(token)
       IN
       Apply([r EXCEPT !.cur = current_user,
                       !.role = IF current_user = 0 THEN <<>>
                                ELSE role_name_of(users[current_user]),
                       !.token = IF get_bearer_token_raises(token) THEN {} ELSE {token}],
             Deps(gate, token))

----------------------------------------------------------------------------
(* User management handlers (routes/users.py, routes/auth.py) *)

\* the role name the handler validates: request.role.lower().strip()
requested_role(rolearg) == strip(lower(rolearg))

valid_roles == {<<"admin">>, <<"manager">>, <<"user">>}

update_user_status_body(r) ==
    IF get_user_by_id(r.target) = {} THEN Out(404, "User not found")
    ELSE IF r.target = r.cur THEN Out(400, "You cannot disable your own account")
    ELSE Loaded(<<users[r.target].is_active>>)

\* The flush writes a column only when the value assigned differs from the one
\* the body loaded; the UPDATE, or else the refresh after the commit, finds no
\* row when the user was deleted meanwhile.
update_user_status_commit(r) ==
    IF r.target \notin DOMAIN users THEN Out(500, "StaleDataError")
    ELSE IF r.seen = <<r.flag>> THEN Wrote(200, "", Keep)
    ELSE Wrote(200, "", [Keep EXCEPT !.users[r.target].is_active = r.flag])

\* update_user_role without its "Validate role name"
update_user_role_body_skips_validation(r) ==
    IF role_by_name(requested_role(r.rolearg)) = {}
    THEN Out(500, "Role not found in database")
    ELSE IF get_user_by_id(r.target) = {} THEN Out(404, "User not found")
    ELSE IF r.target = r.cur THEN Out(400, "You cannot change your own role")
    ELSE Loaded(<<users[r.target].role_id>>)

update_user_role_body(r) ==
    IF requested_role(r.rolearg) \notin valid_roles
    THEN Out(400, "Invalid role. Must be one of: admin, manager, user")
    ELSE IF role_by_name(requested_role(r.rolearg)) = {}
    THEN Out(500, "Role not found in database")
    ELSE IF get_user_by_id(r.target) = {} THEN Out(404, "User not found")
    ELSE IF r.target = r.cur THEN Out(400, "You cannot change your own role")
    ELSE Loaded(<<users[r.target].role_id>>)

update_user_role_commit(r) ==
    LET role == CHOOSE x \in role_by_name(requested_role(r.rolearg)) : TRUE
    IN  IF r.target \notin DOMAIN users THEN Out(500, "StaleDataError")
        ELSE IF r.seen = <<role.id>> THEN Wrote(200, "", Keep)
        ELSE Wrote(200, "", [Keep EXCEPT !.users[r.target].role_id = role.id])

\* delete_user without its "Prevent deleting yourself" check
delete_user_body_no_self_check(r) ==
    IF get_user_by_id(r.target) = {} THEN Out(404, "User not found")
    ELSE GoOn("commit")

delete_user_body(r) ==
    IF get_user_by_id(r.target) = {} THEN Out(404, "User not found")
    ELSE IF r.target = r.cur THEN Out(400, "You cannot delete your own account")
    ELSE GoOn("commit")

\* rows that reference the user through a NOT NULL foreign key without an ORM
\* delete cascade: the flush sets the key to NULL and the database refuses
references_user(user_id) ==
    \/ \E m \in DOMAIN members : m[1] = user_id
    \/ \E g \in DOMAIN groups : groups[g].created_by = user_id

delete_user_commit(r) ==
    IF r.target \notin DOMAIN users THEN Wrote(204, "", Keep)
    ELSE IF references_user(r.target) THEN Out(500, "IntegrityError")
    ELSE Wrote(204, "", [Keep EXCEPT
             !.users = [id \in DOMAIN users \ {r.target} |-> users[id]]])

disable_user_body(r) ==
    IF get_user_by_id(r.target) = {} THEN Out(404, "User not found")
    ELSE IF r.target = r.cur THEN Out(400, "You cannot disable your own account")
    ELSE Loaded(<<users[r.target].is_active>>)

disable_user_commit(r) ==
    IF r.target \notin DOMAIN users THEN Out(500, "StaleDataError")
    ELSE IF r.seen = <<r.flag>> THEN Wrote(200, "", Keep)
    ELSE Wrote(200, "", [Keep EXCEPT !.users[r.target].is_active = r.flag])

change_user_role_body(r) ==
    IF requested_role(r.rolearg) \notin valid_roles
    THEN Out(400, "Invalid role. Must be one of: admin, manager, user")
    ELSE IF role_by_name(requested_role(r.rolearg)) = {}
    THEN Out(500, "Role not found in database")
    ELSE IF get_user_by_id(r.target) = {} THEN Out(404, "User not found")
    ELSE IF r.target = r.cur THEN Out(400, "You cannot change your own role")
    ELSE Loaded(<<users[r.target].role_id>>)

change_user_role_commit(r) ==
    LET role == CHOOSE x \in role_by_name(requested_role(r.rolearg)) : TRUE
    IN  IF r.target \notin DOMAIN users THEN Out(500, "StaleDataError")
        ELSE IF r.seen = <<role.id>> THEN Wrote(200, "", Keep)
        ELSE Wrote(200, "", [Keep EXCEPT !.users[r.target].role_id = role.id])

----------------------------------------------------------------------------
(* Registration, login and the reads behind a gate (routes/auth.py, routes/users.py) *)

\* GET /auth/me: returns current_user
get_current_user_info_body(r) == Out(200, "")

\* GET /users: the list of users, for an admin
get_all_users_body(r) == Out(200, "")

\* role_name of register: the role asked for, lowered and stripped, or "user"
\* when it is None, empty or blank (<<>> stands for None)
register_role_name(rolearg) ==
    IF rolearg # <<>> /\ strip(rolearg) # <<>> THEN strip(lower(rolearg)) ELSE <<"user">>

\* register as it would be without its "Check if email already exists"
register_body_skips_email_check(r) ==
    LET username == strip(r.uname)
        email == strip(r.email)
        password == strip(r.pw)
        role_name == register_role_name(r.rolearg)
    IN  IF username = <<>> THEN Out(400, "Username cannot be empty")
        ELSE IF email = <<>> THEN Out(400, "Email cannot be empty")
        ELSE IF password = <<>> THEN Out(400, "Password cannot be empty")
        ELSE IF role_name \notin valid_roles
        THEN Out(400, "Invalid role. Must be one of: admin, manager, user")
        ELSE IF role_by_name(role_name) = {}
        THEN Out(500, "Role '{role_name}' not found in database")
        ELSE IF get_user_by_username(username) # {}
        THEN Out(400, "Username already registered")
        ELSE GoOn("commit")

register_body(r) ==
    LET username == strip(r.uname)
        email == strip(r.email)
        password == strip(r.pw)
        role_name == register_role_name(r.rolearg)
    IN  IF username = <<>> THEN Out(400, "Username cannot be empty")
        ELSE IF email = <<>> THEN Out(400, "Email cannot be empty")
        ELSE IF password = <<>> THEN Out(400, "Password cannot be empty")
        ELSE IF role_name \notin valid_roles
        THEN Out(400, "Invalid role. Must be one of: admin, manager, user")
        ELSE IF role_by_name(role_name) = {}
        THEN Out(500, "Role '{role_name}' not found in database")
        ELSE IF get_user_by_username(username) # {}
        THEN Out(400, "Username already registered")
        ELSE IF get_user_by_email(email) # {} THEN Out(400, "Email already registered")
        ELSE GoOn("commit")

\* the INSERT of register as it would be without the unique constraints
register_commit_no_unique_constraint(r) ==
    LET role == CHOOSE x \in role_by_name(register_role_name(r.rolearg)) : TRUE
    IN  [Wrote(201, "", [Keep EXCEPT
            !.users = (nextUserId :>
                         [username |-> strip(r.uname), email |-> strip(r.email),
                          hashed_password |-> get_password_hash(strip(r.pw), nextUserId),
                          role_id |-> role.id, is_active |-> TRUE]) @@ users,
            !.nextUserId = nextUserId + 1])
         EXCEPT !.seen = <<nextUserId>>]

\* the INSERT; users.username and users.email are unique.  bcrypt.gensalt draws
\* a fresh salt, here the id of the row.  seen: the id in the response
register_commit(r) ==
    LET username == strip(r.uname)
        email == strip(r.email)
        password == strip(r.pw)
        role == CHOOSE x \in role_by_name(register_role_name(r.rolearg)) : TRUE
    IN  IF get_user_by_username(username) # {} \/ get_user_by_email(email) # {}
        THEN Out(500, "IntegrityError")
        ELSE [Wrote(201, "", [Keep EXCEPT
                 !.users = (nextUserId :>
                              [username |-> username, email |-> email,
                               hashed_password |-> get_password_hash(password, nextUserId),
                               role_id |-> role.id, is_active |-> TRUE]) @@ users,
                 !.nextUserId = nextUserId + 1])
              EXCEPT !.seen = <<nextUserId>>]

\* POST /users, for an admin: the checks of register with its own details
create_user_body(r) ==
    LET username == strip(r.uname)
        email == strip(r.email)
        password == strip(r.pw)
        role_name == register_role_name(r.rolearg)
    IN  IF username = <<>> THEN Out(400, "Username cannot be empty")
        ELSE IF email = <<>> THEN Out(400, "Email cannot be empty")
        ELSE IF password = <<>> THEN Out(400, "Password cannot be empty")
        ELSE IF role_name \notin valid_roles
        THEN Out(400, "Invalid role. Must be one of: admin, manager, user")
        ELSE IF role_by_name(role_name) = {}
        THEN Out(500, "Role '{role_name}' not found in database")
        ELSE IF get_user_by_username(username) # {} THEN Out(400, "Username already exists")
        ELSE IF get_user_by_email(email) # {} THEN Out(400, "Email already exists")
        ELSE GoOn("commit")

create_user_commit(r) ==
    LET username == strip(r.uname)
        email == strip(r.email)
        password == strip(r.pw)
        role == CHOOSE x \in role_by_name(register_role_name(r.rolearg)) : TRUE
    IN  IF get_user_by_username(username) # {} \/ get_user_by_email(email) # {}
        THEN Out(500, "IntegrityError")
        ELSE [Wrote(201, "", [Keep EXCEPT
                 !.users = (nextUserId :>
                              [username |-> username, email |-> email,
                               hashed_password |-> get_password_hash(password, nextUserId),
                               role_id |-> role.id, is_active |-> TRUE]) @@ users,
                 !.nextUserId = nextUserId + 1])
              EXCEPT !.seen = <<nextUserId>>]

\* the token login issues to user id at instant t
session_token(id, t) ==
    create_access_token([sub |-> users[id].username, user_id |-> id,
                         role |-> role_name_of(users[id])], SessionTicks, t)

\* login as it would be if it told an unknown username from a wrong password
login_body_names_unknown_user(r) ==
    IF authenticate_user_raises(r.uname, r.pw) THEN Out(500, "ValueError")
    ELSE IF get_user_by_username(r.uname) = {} THEN Out(401, "Unknown username")
    ELSE IF authenticate_user(r.uname, r.pw) = {}
    THEN Out(401, "Incorrect username or password")
    ELSE IF ~users[CHOOSE id \in authenticate_user(r.uname, r.pw) : TRUE].is_active
    THEN Out(403, "Your account has been disabled. Please contact an administrator.")
    ELSE Out(200, "")

\* login without its "Check if user account is active"
login_body_skips_active_check(r) ==
    IF authenticate_user_raises(r.uname, r.pw) THEN Out(500, "ValueError")
    ELSE IF authenticate_user(r.uname, r.pw) = {}
    THEN Out(401, "Incorrect username or password")
    ELSE Out(200, "")

\* POST /auth/login: the response; with 200 goes the token of the user found
\* login as it would be if it looked at is_active before the password
login_body_checks_active_first(r) ==
    IF \E id \in get_user_by_username(r.uname) : ~users[id].is_active
    THEN Out(403, "Your account has been disabled. Please contact an administrator.")
    ELSE IF authenticate_user_raises(r.uname, r.pw) THEN Out(500, "ValueError")
    ELSE IF authenticate_user(r.uname, r.pw) = {}
    THEN Out(401, "Incorrect username or password")
    ELSE Out(200, "")

login_body(r) ==
    IF authenticate_user_raises(r.uname, r.pw) THEN Out(500, "ValueError")
    ELSE IF authenticate_user(r.uname, r.pw) = {}
    THEN Out(401, "Incorrect username or password")
    ELSE IF ~users[CHOOSE id \in authenticate_user(r.uname, r.pw) : TRUE].is_active
    THEN Out(403, "Your account has been disabled. Please contact an administrator.")
    ELSE Out(200, "")

----------------------------------------------------------------------------
(* Group handlers (routes/groups.py) *)

can_manage_group(role) == role \in {<<"admin">>, <<"manager">>}

\* role.lower().strip() of the membership role in the request body
requested_member_role(rolearg) == strip(lower(rolearg))

valid_member_roles == {<<"member">>, <<"moderator">>, <<"owner">>}

\* user ids of the memberships of group_id with role "owner", user_id apart
other_owners(group_id, user_id) ==
    {m \in DOMAIN members : m[2] = group_id /\ m[1] # user_id
                            /\ members[m] = <<"owner">>}

\* get_group_or_404 as it would be if only members had access
get_group_or_404_members_only(r) ==
    IF r.group \notin DOMAIN groups THEN Out(404, "Group with ID {group_id} not found")
    ELSE IF <<r.cur, r.group>> \notin DOMAIN members
    THEN Out(403, "You don't have access to this group")
    ELSE GoOn("body")

\* what get_group_or_404 raises, or status 0 when it returns the group
get_group_or_404(r) ==
    IF r.group \notin DOMAIN groups THEN Out(404, "Group with ID {group_id} not found")
    ELSE IF can_manage_group(r.role) THEN GoOn("body")
    ELSE IF <<r.cur, r.group>> \notin DOMAIN members
    THEN Out(403, "You don't have access to this group")
    ELSE GoOn("body")

\* GET /groups/{group_id}: any authenticated user; reads only
get_group_body(r) ==
    IF get_group_or_404(r).status # 0 THEN get_group_or_404(r)
    ELSE Out(200, "")

\* GET /groups/{group_id}/courses: any authenticated user; reads only
get_group_courses_body(r) ==
    IF get_group_or_404(r).status # 0 THEN get_group_or_404(r)
    ELSE Out(200, "")

\* PATCH /groups/{group_id} with a name in the body
update_group_body(r) ==
    IF get_group_or_404(r).status # 0 THEN get_group_or_404(r)
    ELSE IF strip(r.name) = <<>> THEN Out(400, "Group name cannot be empty")
    ELSE GoOn("commit")

\* updated_at is assigned anew, so the UPDATE is always sent; it finds no row
\* when the group was deleted meanwhile
update_group_commit(r) ==
    IF r.group \notin DOMAIN groups THEN Out(500, "StaleDataError")
    ELSE Wrote(200, "", [Keep EXCEPT !.groups[r.group].name = strip(r.name)])

\* the name check, before the first database round trip of the handler
create_group_body(r) ==
    IF strip(r.name) = <<>> THEN Out(400, "Group name cannot be empty")
    ELSE GoOn("commit")

\* first commit: the group row (created_by references users)
create_group_commit(r) ==
    IF r.cur \notin DOMAIN users THEN Out(500, "IntegrityError")
    ELSE [WroteOn("commit2",
            [Keep EXCEPT !.groups = (nextGroupId :> [name |-> strip(r.name),
                                                     created_by |-> r.cur]) @@ groups,
                         !.nextGroupId = nextGroupId + 1])
          EXCEPT !.seen = <<nextGroupId>>]

\* second commit: the creator's membership, role "owner", in the new group
\* (seen: the id of the group, which the response carries)
create_group_commit2(r) ==
    IF r.cur \notin DOMAIN users \/ r.seen[1] \notin DOMAIN groups
    THEN Out(500, "IntegrityError")
    ELSE [Wrote(201, "", [Keep EXCEPT !.members = (<<r.cur, r.seen[1]>> :> <<"owner">>)
                                                 @@ members])
          EXCEPT !.seen = r.seen]

\* delete_group as it would be if it deleted without looking the group up
delete_group_body_skips_lookup(r) == GoOn("commit")

delete_group_body(r) ==
    IF get_group_or_404(r).status # 0 THEN get_group_or_404(r)
    ELSE GoOn("commit")

\* the delete cascades to the memberships of the group (cascade="all, delete-orphan")
delete_group_commit(r) ==
    Wrote(204, "", [Keep EXCEPT
        !.groups = [g \in DOMAIN groups \ {r.group} |-> groups[g]],
        !.members = [m \in {x \in DOMAIN members : x[2] # r.group} |-> members[m]]])

add_member_to_group_body(r) ==
    IF requested_member_role(r.rolearg) \notin valid_member_roles
    THEN Out(400, "Invalid role. Must be one of: member, moderator, owner")
    ELSE IF get_group_or_404(r).status # 0 THEN get_group_or_404(r)
    ELSE IF r.target \notin DOMAIN users THEN Out(404, "User with ID {user_id} not found")
    ELSE IF <<r.target, r.group>> \in DOMAIN members
    THEN Out(400, "User is already a member of this group")
    ELSE GoOn("commit")

\* the INSERT violates uq_user_group when the pair exists by now, and a foreign
\* key when the user or the group is gone
add_member_to_group_commit(r) ==
    IF \/ <<r.target, r.group>> \in DOMAIN members
       \/ r.target \notin DOMAIN users
       \/ r.group \notin DOMAIN groups
    THEN Out(500, "IntegrityError")
    ELSE Wrote(201, "", [Keep EXCEPT
             !.members = (<<r.target, r.group>> :> requested_member_role(r.rolearg))
                         @@ members])

\* remove_member_from_group without its "Prevent removing the last owner" check
remove_member_from_group_body_unguarded(r) ==
    IF get_group_or_404(r).status # 0 THEN get_group_or_404(r)
    ELSE IF <<r.target, r.group>> \notin DOMAIN members
    THEN Out(404, "User is not a member of this group")
    ELSE GoOn("commit")

remove_member_from_group_body(r) ==
    IF get_group_or_404(r).status # 0 THEN get_group_or_404(r)
    ELSE IF <<r.target, r.group>> \notin DOMAIN members
    THEN Out(404, "User is not a member of this group")
    ELSE IF members[<<r.target, r.group>>] = <<"owner">>
            /\ other_owners(r.group, r.target) = {}
    THEN Out(400, "Cannot remove the last owner from the group")
    ELSE GoOn("commit")

\* a DELETE that matches no row only warns
remove_member_from_group_commit(r) ==
    Wrote(204, "", [Keep EXCEPT
        !.members = [m \in DOMAIN members \ {<<r.target, r.group>>} |-> members[m]]])

update_member_role_body(r) ==
    IF requested_member_role(r.rolearg) \notin valid_member_roles
    THEN Out(400, "Invalid role. Must be one of: member, moderator, owner")
    ELSE IF get_group_or_404(r).status # 0 THEN get_group_or_404(r)
    ELSE IF <<r.target, r.group>> \notin DOMAIN members
    THEN Out(404, "User is not a member of this group")
    ELSE IF members[<<r.target, r.group>>] = <<"owner">>
            /\ requested_member_role(r.rolearg) # <<"owner">>
            /\ other_owners(r.group, r.target) = {}
    THEN Out(400, "Cannot change role of the last owner. Promote another member to owner first.")
    ELSE Loaded(members[<<r.target, r.group>>])

update_member_role_commit(r) ==
    IF <<r.target, r.group>> \notin DOMAIN members THEN Out(500, "StaleDataError")
    ELSE IF r.seen = requested_member_role(r.rolearg) THEN Wrote(200, "", Keep)
    ELSE Wrote(200, "", [Keep EXCEPT
             !.members[<<r.target, r.group>>] = requested_member_role(r.rolearg)])

----------------------------------------------------------------------------
(* Course handlers (routes/courses.py) *)

\* the courses table and the course_groups table as seeded: no endpoint
\* writes course_groups; course 1 is assigned to group 1, course 2 to no group
SeededCourses == {1, 2}

SeededCourseGroups == {<<1, 1>>}

\* GET /courses: every course for an admin, otherwise the courses assigned to
\* the groups of the caller (seen: the ids of the courses in the response)
get_all_courses_body(r) ==
    LET user_group_ids == {m[2] : m \in {x \in DOMAIN members : x[1] = r.cur}} IN
    IF r.role = <<"admin">> THEN [Out(200, "") EXCEPT !.seen = <<SeededCourses>>]
    ELSE IF user_group_ids = {} THEN [Out(200, "") EXCEPT !.seen = <<{}>>]
    ELSE [Out(200, "") EXCEPT
            !.seen = <<{c \in SeededCourses :
                          \E g \in user_group_ids : <<c, g>> \in SeededCourseGroups}>>]

\* GET /courses/{course_id}: the course row by its id, for any authenticated user
get_course_body(r) ==
    IF r.course \notin SeededCourses THEN Out(404, "Course not found")
    ELSE [Out(200, "") EXCEPT !.seen = <<r.course>>]

----------------------------------------------------------------------------
(* Dispatch of a request to its handler *)

AdminOps == {"update_user_status", "update_user_role", "delete_user",
             "disable_user", "change_user_role"}

AdminReads == {"get_all_users"}

AdminCreates == {"create_user"}

GroupManagerOps == {"create_group", "update_group", "delete_group",
                    "add_member_to_group", "remove_member_from_group",
                    "update_member_role"}

\* the dependency each route declares: Depends(require_admin), ...
gate_of(op) == IF op \in AdminOps \cup AdminReads \cup AdminCreates THEN "admin"
               ELSE IF op \in GroupManagerOps THEN "group_manager"
               ELSE "active_user"

Body(r) ==
    CASE r.op = "update_user_status" -> update_user_status_body(r)
      [] r.op = "update_user_role" -> update_user_role_body(r)
      [] r.op = "delete_user" -> delete_user_body(r)
      [] r.op = "disable_user" -> disable_user_body(r)
      [] r.op = "change_user_role" -> change_user_role_body(r)
      [] r.op = "get_group" -> get_group_body(r)
      [] r.op = "get_group_courses" -> get_group_courses_body(r)
      [] r.op = "update_group" -> update_group_body(r)
      [] r.op = "get_current_user_info" -> get_current_user_info_body(r)
      [] r.op = "get_all_users" -> get_all_users_body(r)
      [] r.op = "get_all_courses" -> get_all_courses_body(r)
      [] r.op = "get_course" -> get_course_body(r)
      [] r.op = "register" -> register_body(r)
      [] r.op = "create_user" -> create_user_body(r)
      [] r.op = "create_group" -> create_group_body(r)
      [] r.op = "delete_group" -> delete_group_body(r)
      [] r.op = "add_member_to_group" -> add_member_to_group_body(r)
      [] r.op = "remove_member_from_group" -> remove_member_from_group_body(r)
      [] r.op = "update_member_role" -> update_member_role_body(r)

Commit(r) ==
    CASE r.op = "update_user_status" -> update_user_status_commit(r)
      [] r.op = "update_user_role" -> update_user_role_commit(r)
      [] r.op = "delete_user" -> delete_user_commit(r)
      [] r.op = "disable_user" -> disable_user_commit(r)
      [] r.op = "change_user_role" -> change_user_role_commit(r)
      [] r.op = "create_group" -> IF r.pc = "commit2" THEN create_group_commit2(r)
                                  ELSE create_group_commit(r)
      [] r.op = "register" -> register_commit(r)
      [] r.op = "create_user" -> create_user_commit(r)
      [] r.op = "update_group" -> update_group_commit(r)
      [] r.op = "delete_group" -> delete_group_commit(r)
      [] r.op = "add_member_to_group" -> add_member_to_group_commit(r)
      [] r.op = "remove_member_from_group" -> remove_member_from_group_commit(r)
      [] r.op = "update_member_role" -> update_member_role_commit(r)

\* the next database round trip of the request under observation
Resume(op) ==
    /\ InFlight
    /\ req.op = op
    /\ Apply(req, IF req.pc = "body" THEN Body(req) ELSE Commit(req))

----------------------------------------------------------------------------
(* Inputs of the requests *)

TargetIds == 1..MaxUsers

RoleInputs == {<<"user">>, <<"ADMIN">>, <<"manager", " ">>, <<"root">>}

GroupIds == 1..MaxGroups

MemberRoleInputs == {<<"member">>, <<"Owner", " ">>, <<"boss">>}

GroupNames == {<<"g">>, <<" ">>}

UsernameInputs == {<<"alice">>, <<" ", "alice">>, <<"bob">>}

PasswordInputs == {<<"pw123">>, <<"pw123", " ">>}

EmailInputs == {<<"a@x.com">>, <<"b@x.com">>}

\* the role of a registration: none given, one in capitals, or an unknown one
RegisterRoleInputs == {<<>>, <<"Manager">>, <<"root">>}

\* course ids asked for: the two courses and one that does not exist
CourseIds == SeededCourses \cup {3}

\* salts that bcrypt.gensalt may draw
Salts == 1..(MaxUsers + 1)

\* claims handed to create_access_token: those of login, those of
\* create_verification_token, and claims that bring an "exp" of their own
ClaimSets ==
    {[sub |-> <<"alice">>, role |-> <<"user">>],
     [user_id |-> 1, email |-> <<"a@x.com">>, type |-> "email_verification"],
     [sub |-> <<"alice">>, exp |-> 0],
     [sub |-> <<"alice">>, exp |-> 2 * SessionTicks]}

\* times to live, in ticks: less than a second, a second, that of a session
Ttls == {1, TicksPerSecond, SessionTicks}

\* instants at which tokens are issued: the first MaxJitter ticks
IssueInstants == 0..MaxJitter

\* instants the clock visits: around the end of each time to live, for every
\* instant of issue, from one tick before it to one second and a tick after
Instants ==
    IssueInstants \cup
    {t0 + ttl + j : t0 \in IssueInstants,
                    ttl \in {SessionTicks, PasswordResetTicks, VerificationTicks},
                    j \in -1..(TicksPerSecond + 1)}

Requests(op) ==
    CASE op \in {"update_user_status", "disable_user"} ->
           {[NoReq EXCEPT !.op = op, !.target = t, !.flag = f] :
               t \in TargetIds, f \in BOOLEAN}
      [] op \in {"update_user_role", "change_user_role"} ->
           {[NoReq EXCEPT !.op = op, !.target = t, !.rolearg = x] :
               t \in TargetIds, x \in RoleInputs}
      [] op = "delete_user" ->
           {[NoReq EXCEPT !.op = op, !.target = t] : t \in TargetIds}
      [] op = "update_group" ->
           {[NoReq EXCEPT !.op = op, !.group = g, !.name = n] :
               g \in GroupIds, n \in GroupNames \cup {<<"h">>}}
      [] op \in {"get_group", "get_group_courses", "delete_group"} ->
           {[NoReq EXCEPT !.op = op, !.group = g] : g \in GroupIds}
      [] op = "create_group" ->
           {[NoReq EXCEPT !.op = op, !.name = n] : n \in GroupNames}
      [] op \in {"add_member_to_group", "update_member_role"} ->
           {[NoReq EXCEPT !.op = op, !.group = g, !.target = t, !.rolearg = x] :
               g \in GroupIds, t \in TargetIds, x \in MemberRoleInputs}
      [] op = "remove_member_from_group" ->
           {[NoReq EXCEPT !.op = op, !.group = g, !.target = t] :
               g \in GroupIds, t \in TargetIds}
      [] op \in {"get_current_user_info", "get_all_users", "get_all_courses"} ->
           {[NoReq EXCEPT !.op = op]}
      [] op = "get_course" -> {[NoReq EXCEPT !.op = op, !.course = c] : c \in CourseIds}
      [] op = "login" ->
           {[NoReq EXCEPT !.op = op, !.uname = u, !.pw = p] :
               u \in UsernameInputs \cup {users[id].username : id \in DOMAIN users},
               p \in PasswordInputs}
      [] op \in {"register", "create_user"} ->
           {[NoReq EXCEPT !.op = op, !.uname = u, !.pw = p, !.email = e, !.rolearg = x] :
               u \in UsernameInputs, p \in PasswordInputs, e \in EmailInputs,
               x \in RegisterRoleInputs}
      [] op \in {"verify_verification_token", "verify_password_reset_token"} ->
           {[NoReq EXCEPT !.op = op]}

----------------------------------------------------------------------------
(* Actions: one per endpoint, each covering the steps of its handler *)

update_user_status ==
    \/ \E r \in Requests("update_user_status"), token \in tokens : Begin(r, "admin", token)
    \/ Resume("update_user_status")

update_user_role ==
    \/ \E r \in Requests("update_user_role"), token \in tokens : Begin(r, "admin", token)
    \/ Resume("update_user_role")

delete_user ==
    \/ \E r \in Requests("delete_user"), token \in tokens : Begin(r, "admin", token)
    \/ Resume("delete_user")

disable_user ==
    \/ \E r \in Requests("disable_user"), token \in tokens : Begin(r, "admin", token)
    \/ Resume("disable_user")

change_user_role ==
    \/ \E r \in Requests("change_user_role"), token \in tokens : Begin(r, "admin", token)
    \/ Resume("change_user_role")

get_group ==
    \/ \E r \in Requests("get_group"), token \in tokens : Begin(r, "active_user", token)
    \/ Resume("get_group")

get_all_courses ==
    \/ \E r \in Requests("get_all_courses"), token \in tokens :
          Begin(r, "active_user", token)
    \/ Resume("get_all_courses")

get_course ==
    \/ \E r \in Requests("get_course"), token \in tokens : Begin(r, "active_user", token)
    \/ Resume("get_course")

get_group_courses ==
    \/ \E r \in Requests("get_group_courses"), token \in tokens :
          Begin(r, "active_user", token)
    \/ Resume("get_group_courses")

update_group ==
    \/ \E r \in Requests("update_group"), token \in tokens :
          Begin(r, "group_manager", token)
    \/ Resume("update_group")

create_group ==
    \/ \E r \in Requests("create_group"), token \in tokens :
          nextGroupId <= MaxGroups /\ Begin(r, "group_manager", token)
    \/ Resume("create_group")

delete_group ==
    \/ \E r \in Requests("delete_group"), token \in tokens :
          Begin(r, "group_manager", token)
    \/ Resume("delete_group")

add_member_to_group ==
    \/ \E r \in Requests("add_member_to_group"), token \in tokens :
          Begin(r, "group_manager", token)
    \/ Resume("add_member_to_group")

remove_member_from_group ==
    \/ \E r \in Requests("remove_member_from_group"), token \in tokens :
          Begin(r, "group_manager", token)
    \/ Resume("remove_member_from_group")

update_member_role ==
    \/ \E r \in Requests("update_member_role"), token \in tokens :
          Begin(r, "group_manager", token)
    \/ Resume("update_member_role")

get_current_user_info ==
    \/ \E r \in Requests("get_current_user_info"), token \in tokens :
          Begin(r, "active_user", token)
    \/ Resume("get_current_user_info")

get_all_users ==
    \/ \E r \in Requests("get_all_users"), token \in tokens : Begin(r, "admin", token)
    \/ Resume("get_all_users")

\* POST /auth/register takes no credentials: its checks run on arrival, its
\* INSERT is a later step
register ==
    \/ \E r \in Requests("register") :
          ~InFlight /\ nextUserId <= MaxUsers /\ Apply(r, register_body(r))
    \/ Resume("register")

create_user ==
    \/ \E r \in Requests("create_user"), token \in tokens :
          nextUserId <= MaxUsers /\ Begin(r, "admin", token)
    \/ Resume("create_user")

\* POST /auth/login reads the user once and answers; the client keeps the token
login ==
    \E r \in Requests("login") :
        LET out == login_body(r)
            issued == IF out.status # 200 THEN {}
                      ELSE {session_token(CHOOSE id \in authenticate_user(r.uname, r.pw) : TRUE,
                                          now)}
        IN  /\ ~InFlight
            /\ now \in IssueInstants
            /\ Cardinality(tokens \cup issued) <= MaxTokens
            /\ req' = [r EXCEPT !.pc = "done", !.status = out.status,
                                !.detail = out.detail, !.issued = issued]
            /\ tokens' = tokens \cup issued
            /\ UNCHANGED <<users, nextUserId, groups, nextGroupId, members, now>>

\* the token functions that no endpoint calls: create_* hands a token for a
\* user to a client, verify_* answers "payload" or "None" for a token presented
call_create_verification_token ==
    \E id \in DOMAIN users :
        /\ ~InFlight
        /\ now \in IssueInstants
        /\ Cardinality(tokens \cup {create_verification_token(id, users[id].email, now)})
              <= MaxTokens
        /\ tokens' = tokens \cup {create_verification_token(id, users[id].email, now)}
        /\ UNCHANGED <<users, nextUserId, groups, nextGroupId, members, now, req>>

call_create_password_reset_token ==
    \E id \in DOMAIN users :
        /\ ~InFlight
        /\ now \in IssueInstants
        /\ Cardinality(tokens \cup {create_password_reset_token(id, users[id].email, now)})
              <= MaxTokens
        /\ tokens' = tokens \cup {create_password_reset_token(id, users[id].email, now)}
        /\ UNCHANGED <<users, nextUserId, groups, nextGroupId, members, now, req>>

call_verify_verification_token ==
    \E r \in Requests("verify_verification_token"), token \in tokens :
        /\ ~InFlight
        /\ req' = [r EXCEPT !.pc = "done", !.token = {token},
                            !.detail = IF verify_verification_token(token, now)
                                       THEN "payload" ELSE "None"]
        /\ UNCHANGED <<users, nextUserId, groups, nextGroupId, members, tokens, now>>

call_verify_password_reset_token ==
    \E r \in Requests("verify_password_reset_token"), token \in tokens :
        /\ ~InFlight
        /\ req' = [r EXCEPT !.pc = "done", !.token = {token},
                            !.detail = IF verify_password_reset_token(token, now)
                                       THEN "payload" ELSE "None"]
        /\ UNCHANGED <<users, nextUserId, groups, nextGroupId, members, tokens, now>>

\* get_password_hash called with a password; bcrypt.gensalt draws the salt
call_get_password_hash ==
    \E password \in PasswordInputs, salt \in Salts :
        /\ ~InFlight
        /\ req' = [NoReq EXCEPT !.op = "get_password_hash", !.pc = "done", !.pw = password,
                                !.args = <<get_password_hash(password, salt)>>]
        /\ UNCHANGED <<users, nextUserId, groups, nextGroupId, members, tokens, now>>

\* verify_password called with a password and a hash: the one get_password_hash
\* just returned, or the one stored for a user
call_verify_password ==
    \E password \in PasswordInputs,
       hashed \in {users[id].hashed_password : id \in DOMAIN users}
                  \cup (IF req.op = "get_password_hash" THEN {req.args[1]} ELSE {}) :
        /\ ~InFlight
        /\ req' = [NoReq EXCEPT !.op = "verify_password", !.pc = "done", !.pw = password,
                                !.args = <<hashed>>,
                                !.detail = IF verify_password_raises(password, hashed)
                                           THEN "ValueError"
                                           ELSE IF verify_password(password, hashed)
                                           THEN "True" ELSE "False"]
        /\ UNCHANGED <<users, nextUserId, groups, nextGroupId, members, tokens, now>>

\* create_access_token called with the claims data and the time to live ttl
call_create_access_token ==
    \E data \in ClaimSets, ttl \in Ttls :
        /\ ~InFlight
        /\ now \in IssueInstants
        /\ req' = [NoReq EXCEPT !.op = "create_access_token", !.pc = "done",
                                !.args = <<data, ttl, now>>,
                                !.issued = {create_access_token(data, ttl, now)}]
        /\ UNCHANGED <<users, nextUserId, groups, nextGroupId, members, tokens, now>>

\* jwt.decode(token, SECRET_KEY) of the token that create_access_token returned
call_jwt_decode ==
    \E token \in req.issued :
        /\ req.op = "create_access_token"
        /\ req' = [req EXCEPT !.op = "jwt_decode", !.token = {token},
                              !.detail = IF jwt_decode_raises(token, now)
                                         THEN "JWTError" ELSE "payload",
                              !.seen = IF jwt_decode_raises(token, now)
                                       THEN <<>> ELSE <<jwt_decode(token)>>]
        /\ UNCHANGED <<users, nextUserId, groups, nextGroupId, members, tokens, now>>

\* the wall clock moves on to the next instant of interest, up to horizon
Tick(horizon) ==
    /\ \E t \in Instants :
          /\ t > now
          /\ t <= horizon
          /\ \A u \in Instants : u > now => t <= u
          /\ now' = t
    /\ UNCHANGED <<users, nextUserId, groups, nextGroupId, members, tokens, req>>

\* another client registers between two steps of the request under observation
concurrent_register ==
    /\ InFlight
    /\ nextUserId <= MaxUsers
    /\ \E r \in Requests("register") :
          /\ register_body(r).status = 0
          /\ users' = register_commit(r).db.users
          /\ nextUserId' = register_commit(r).db.nextUserId
    /\ UNCHANGED <<groups, nextGroupId, members, tokens, now, req>>

\* a request of another client, served from its dependencies to its commit
\* between two steps of the request under observation
concurrent_request(ops) ==
    /\ InFlight
    /\ \E op \in ops : \E r \in Requests(op), token \in tokens :
         LET current_user == get_current_active_user(token)
             r0 == [r EXCEPT !.cur = current_user,
                             !.role = role_name_of(users[current_user])]
             r1 == [r0 EXCEPT !.seen = Body(r0).seen]
         IN  /\ op \in AdminCreates => nextUserId <= MaxUsers
             /\ Deps(gate_of(op), token).status = 0
             /\ Body(r0).status = 0
             /\ Commit(r1).db # Keep
             /\ users' = Commit(r1).db.users
             /\ nextUserId' = Commit(r1).db.nextUserId
             /\ groups' = Commit(r1).db.groups
             /\ nextGroupId' = Commit(r1).db.nextGroupId
             /\ members' = Commit(r1).db.members
    /\ UNCHANGED <<tokens, now, req>>

----------------------------------------------------------------------------
(* Initial states *)

SeedUser(username, email, password, role_name) ==
    [username |-> username, email |-> email,
     hashed_password |-> get_password_hash(password, 1),
     role_id |-> (CHOOSE r \in Roles : r.name = role_name).id,
     is_active |-> TRUE]

SeededUsers ==
    (1 :> SeedUser(<<"admin">>, <<"admin@test.com">>, <<"adminpw">>, <<"admin">>))
    @@ (2 :> SeedUser(<<"bob">>, <<"bob@test.com">>, <<"bobpw">>, <<"user">>))

\* an admin and a plain user are registered and logged in; no groups yet
Init ==
    /\ users = SeededUsers
    /\ nextUserId = 3
    /\ groups = <<>>
    /\ nextGroupId = 1
    /\ members = <<>>
    /\ now = 0
    /\ tokens = {session_token(id, 0) : id \in DOMAIN users}
    /\ req = NoReq

Accounts == AdminOps

Next ==
    \/ update_user_status
    \/ update_user_role
    \/ delete_user
    \/ disable_user
    \/ change_user_role
    \/ concurrent_request(Accounts)

Spec == Init /\ [][Next]_vars

----------------------------------------------------------------------------
(* Group management: an admin, a manager and a plain user are registered, the *)
(* admin and the manager are logged in; groups are created, populated and     *)
(* deleted, users are deleted                                                 *)

GroupUsers ==
    (1 :> SeedUser(<<"admin">>, <<"admin@test.com">>, <<"adminpw">>, <<"admin">>))
    @@ (2 :> SeedUser(<<"mia">>, <<"mia@test.com">>, <<"miapw">>, <<"manager">>))
    @@ (3 :> SeedUser(<<"uma">>, <<"uma@test.com">>, <<"umapw">>, <<"user">>))

InitGroups ==
    /\ users = GroupUsers
    /\ nextUserId = 4
    /\ groups = <<>>
    /\ nextGroupId = 1
    /\ members = <<>>
    /\ now = 0
    /\ tokens = {session_token(id, 0) : id \in {1, 2}}
    /\ req = NoReq

\* the requests of other clients that interleave: those with a single commit
GroupRaces == {"delete_group", "add_member_to_group", "remove_member_from_group",
               "update_member_role", "delete_user"}

NextGroups ==
    \/ create_group
    \/ delete_group
    \/ add_member_to_group
    \/ remove_member_from_group
    \/ update_member_role
    \/ delete_user
    \/ concurrent_request(GroupRaces)

SpecGroups == InitGroups /\ [][NextGroups]_vars

----------------------------------------------------------------------------
(* Ownership of a group: an admin, logged in, and a manager; the admin        *)
(* creates groups and adds, removes and re-roles members while other          *)
(* requests of the same kind interleave                                       *)

OwnerUsers ==
    (1 :> SeedUser(<<"admin">>, <<"admin@test.com">>, <<"adminpw">>, <<"admin">>))
    @@ (2 :> SeedUser(<<"mia">>, <<"mia@test.com">>, <<"miapw">>, <<"manager">>))

InitOwners ==
    /\ users = OwnerUsers
    /\ nextUserId = 3
    /\ groups = <<>>
    /\ nextGroupId = 1
    /\ members = <<>>
    /\ now = 0
    /\ tokens = {session_token(1, 0)}
    /\ req = NoReq

OwnerRaces == {"add_member_to_group", "remove_member_from_group", "update_member_role"}

NextOwners ==
    \/ create_group
    \/ add_member_to_group
    \/ remove_member_from_group
    \/ update_member_role
    \/ concurrent_request(OwnerRaces)

SpecOwners == InitOwners /\ [][NextOwners]_vars

----------------------------------------------------------------------------
(* The gates: an admin and a plain user, logged in, change roles and active   *)
(* flags and call an endpoint behind each gate                                *)

NextGates ==
    \/ update_user_role
    \/ update_user_status
    \/ get_all_users
    \/ create_group
    \/ get_group

SpecGates == Init /\ [][NextGates]_vars

----------------------------------------------------------------------------
(* Sessions: two admins, the first one logged in; logins, disabling and       *)
(* enabling of accounts, reads with the tokens issued, while the clock runs   *)
(* to the end of the session time to live                                     *)

SessionUsers ==
    (1 :> SeedUser(<<"admin">>, <<"admin@test.com">>, <<"adminpw">>, <<"admin">>))
    @@ (2 :> SeedUser(<<"ada">>, <<"ada@test.com">>, <<"pw123">>, <<"admin">>))

InitSession ==
    /\ users = SessionUsers
    /\ nextUserId = 3
    /\ groups = <<>>
    /\ nextGroupId = 1
    /\ members = <<>>
    /\ now = 0
    /\ tokens = {session_token(1, 0)}
    /\ req = NoReq

SessionHorizon == MaxJitter + SessionTicks + TicksPerSecond + 1

NextSession ==
    \/ login
    \/ update_user_status
    \/ get_current_user_info
    \/ get_all_users
    \/ Tick(SessionHorizon)

SpecSession == InitSession /\ [][NextSession]_vars

----------------------------------------------------------------------------
(* Registration round trip: an empty users table; clients register, log in    *)
(* and ask who they are                                                       *)

InitRegister ==
    /\ users = <<>>
    /\ nextUserId = 1
    /\ groups = <<>>
    /\ nextGroupId = 1
    /\ members = <<>>
    /\ now = 0
    /\ tokens = {}
    /\ req = NoReq

NextRegister ==
    \/ register
    \/ login
    \/ get_current_user_info
    \/ concurrent_register

SpecRegister == InitRegister /\ [][NextRegister]_vars

----------------------------------------------------------------------------
(* Tokens: one registered user; tokens of the three purposes are issued and   *)
(* presented to the three verifications while the clock runs past the         *)
(* longest time to live                                                       *)

TokenUsers ==
    (1 :> SeedUser(<<"alice">>, <<"a@x.com">>, <<"pw123">>, <<"user">>))

InitTokens ==
    /\ users = TokenUsers
    /\ nextUserId = 2
    /\ groups = <<>>
    /\ nextGroupId = 1
    /\ members = <<>>
    /\ now = 0
    /\ tokens = {}
    /\ req = NoReq

TokenHorizon == MaxJitter + VerificationTicks + TicksPerSecond + 1

NextTokens ==
    \/ login
    \/ call_create_verification_token
    \/ call_create_password_reset_token
    \/ call_verify_verification_token
    \/ call_verify_password_reset_token
    \/ get_current_user_info
    \/ Tick(TokenHorizon)

SpecTokens == InitTokens /\ [][NextTokens]_vars

----------------------------------------------------------------------------
(* Accounts: one admin, logged in; clients register, the admin creates users  *)
(* and changes roles, while registrations and creations of other clients      *)
(* interleave                                                                 *)

AccountUsers ==
    (1 :> SeedUser(<<"admin">>, <<"admin@test.com">>, <<"adminpw">>, <<"admin">>))

InitAccounts ==
    /\ users = AccountUsers
    /\ nextUserId = 2
    /\ groups = <<>>
    /\ nextGroupId = 1
    /\ members = <<>>
    /\ now = 0
    /\ tokens = {session_token(1, 0)}
    /\ req = NoReq

NextAccounts ==
    \/ register
    \/ create_user
    \/ update_user_role
    \/ change_user_role
    \/ concurrent_register
    \/ concurrent_request(AdminCreates)

SpecAccounts == InitAccounts /\ [][NextAccounts]_vars

----------------------------------------------------------------------------
(* Access to a group: an admin, a manager and a plain user, all logged in,    *)
(* and one group that the admin created and added the user to as moderator;   *)
(* the group is viewed, renamed, populated and deleted                        *)

InitAccess ==
    /\ users = GroupUsers
    /\ nextUserId = 4
    /\ groups = (1 :> [name |-> <<"g">>, created_by |-> 1])
    /\ nextGroupId = 2
    /\ members = (<<1, 1>> :> <<"owner">>) @@ (<<3, 1>> :> <<"moderator">>)
    /\ now = 0
    /\ tokens = {session_token(id, 0) : id \in DOMAIN GroupUsers}
    /\ req = NoReq

NextAccess ==
    \/ get_group
    \/ get_group_courses
    \/ update_group
    \/ delete_group
    \/ add_member_to_group
    \/ remove_member_from_group
    \/ update_member_role

SpecAccess == InitAccess /\ [][NextAccess]_vars

----------------------------------------------------------------------------
(* Credentials: an admin and a plain user, logged in; clients present their   *)
(* session tokens, a token signed with another key, an email-verification     *)
(* token, or no Authorization header, to endpoints behind each gate, while    *)
(* the admin deletes the user and the clock runs past the session time to     *)
(* live                                                                       *)

InitCredentials ==
    /\ users = SeededUsers
    /\ nextUserId = 3
    /\ groups = <<>>
    /\ nextGroupId = 1
    /\ members = <<>>
    /\ now = 0
    /\ tokens = {session_token(1, 0), session_token(2, 0), Forged(session_token(1, 0)),
                 create_verification_token(2, SeededUsers[2].email, 0), NoHeader}
    /\ req = NoReq

NextCredentials ==
    \/ get_current_user_info
    \/ get_all_users
    \/ update_user_status
    \/ delete_user
    \/ create_group
    \/ get_group
    \/ Tick(SessionHorizon)

SpecCredentials == InitCredentials /\ [][NextCredentials]_vars

----------------------------------------------------------------------------
(* Courses: the users, the group and the memberships of InitAccess, with the  *)
(* seeded courses; courses are listed and read while memberships change       *)

NextCourses ==
    \/ get_all_courses
    \/ get_course
    \/ add_member_to_group
    \/ remove_member_from_group

SpecCourses == InitAccess /\ [][NextCourses]_vars

----------------------------------------------------------------------------
(* Reuse of a username: an admin and a plain user, logged in; the admin       *)
(* deletes users, clients register, and the tokens are presented to            *)
(* get_current_user_info                                                      *)

NextReuse ==
    \/ delete_user
    \/ register
    \/ get_current_user_info

SpecReuse == Init /\ [][NextReuse]_vars

----------------------------------------------------------------------------
(* Round trip of a token: create_access_token is called with claims and a     *)
(* time to live, and its token is decoded at once or after the clock moved    *)

InitRoundTrip ==
    /\ users = <<>>
    /\ nextUserId = 1
    /\ groups = <<>>
    /\ nextGroupId = 1
    /\ members = <<>>
    /\ now = 0
    /\ tokens = {}
    /\ req = NoReq

NextRoundTrip ==
    \/ call_create_access_token
    \/ call_jwt_decode
    \/ Tick(SessionHorizon)

SpecRoundTrip == InitRoundTrip /\ [][NextRoundTrip]_vars

----------------------------------------------------------------------------
(* Hasher: the admin of the test fixtures, whose stored hash is no bcrypt     *)
(* hash; clients register and log in, and the two hasher functions are called *)

HasherUsers ==
    (1 :> [SeedUser(<<"admin">>, <<"admin@test.com">>, <<"adminpw">>, <<"admin">>)
              EXCEPT !.hashed_password = DummyHash])

InitHasher ==
    /\ users = HasherUsers
    /\ nextUserId = 2
    /\ groups = <<>>
    /\ nextGroupId = 1
    /\ members = <<>>
    /\ now = 0
    /\ tokens = {}
    /\ req = NoReq

NextHasher ==
    \/ register
    \/ login
    \/ call_get_password_hash
    \/ call_verify_password

SpecHasher == InitHasher /\ [][NextHasher]_vars

----------------------------------------------------------------------------
(* Claims about user management, checked under Spec *)

SelfActionDetails == {"You cannot disable your own account",
                      "You cannot change your own role",
                      "You cannot delete your own account"}

self_action_detail(op) ==
    CASE op \in {"update_user_status", "disable_user"} -> "You cannot disable your own account"
      [] op \in {"update_user_role", "change_user_role"} -> "You cannot change your own role"
      [] op = "delete_user" -> "You cannot delete your own account"

\* the observed request passed the admin gate and targets its own account
SelfTargeting(r) ==
    /\ r.op \in AdminOps
    /\ r.role = <<"admin">>
    /\ r.cur # 0
    /\ r.cur = r.target

C4_NonAdminChangesNothing ==
    [][(req' # req /\ req'.op \in AdminOps /\ req'.cur # 0 /\ req'.role # <<"admin">>) =>
        /\ req'.status = 403
        /\ req'.pc = "done"
        /\ users' = users]_vars

\* a manager asked to delete an existing account and was answered 403
C4_Witness ==
    /\ req.pc = "done"
    /\ req.op = "delete_user"
    /\ req.role = <<"manager">>
    /\ req.status = 403
    /\ req.target \in DOMAIN users
    /\ req.target # req.cur

----------------------------------------------------------------------------
(* Claims about group ownership, checked under SpecOwners and SpecGroups *)

\* the observed request removes, or changes to a valid role other than
\* "owner", a membership that exists with role "owner"
TakesOwnerAway(r) ==
    /\ r.op \in {"remove_member_from_group", "update_member_role"}
    /\ <<r.target, r.group>> \in DOMAIN members
    /\ members[<<r.target, r.group>>] = <<"owner">>
    /\ r.op = "update_member_role" =>
          requested_member_role(r.rolearg) \in valid_member_roles \ {<<"owner">>}

last_owner_detail(op) ==
    IF op = "remove_member_from_group"
    THEN "Cannot remove the last owner from the group"
    ELSE "Cannot change role of the last owner. Promote another member to owner first."

C2_WitnessTwoOwners ==
    /\ req.pc = "done"
    /\ req.op = "remove_member_from_group"
    /\ req.status = 204
    /\ <<req.target, req.group>> \notin DOMAIN members
    /\ other_owners(req.group, req.target) # {}

owners_of(group_id) ==
    {m \in DOMAIN members : m[2] = group_id /\ members[m] = <<"owner">>}

\* C3 as stated: every existing group has at least one membership with role
\* "owner", in every reachable state.
C3_EveryGroupHasOwner == \A g \in DOMAIN groups : owners_of(g) # {}

\* C3 between requests only: when no request is being served, every existing
\* group has an owner.
C3_OwnerWhenQuiescent == ~InFlight => C3_EveryGroupHasOwner

\* C3 for the guarded operations taken one at a time: a step of
\* remove_member_from_group, update_member_role or delete_user that no other
\* request interleaved with never takes the last owner of a group away.
C3_GuardKeepsOwner ==
    [][(/\ req.op \in {"remove_member_from_group", "update_member_role", "delete_user"}
        /\ req.pc = "commit" /\ req' # req
        /\ Body(req).status = 0)
       => \A g \in DOMAIN groups : owners_of(g) # {} => owners_of(g)' # {}]_vars

----------------------------------------------------------------------------
(* Claims about the gates, checked under SpecGates *)

\* the step that resolves the dependencies of a request with credentials
Presents == ~InFlight /\ req' # req /\ req'.token # {}

\* C5: the dependencies of a request of an authenticated principal admit it
\* behind require_admin exactly when its role in the users table is admin, and
\* behind require_group_manager exactly when that role is admin or manager,
\* whatever its active flag and the role written in its token; otherwise they
\* answer 403.  get_group_or_404, for a group the principal is no member of,
\* answers 200 exactly for admin and manager, and 403 otherwise.
C5_GatesDecideOnRole ==
    [][/\ (Presents /\ req'.cur # 0 /\ gate_of(req'.op) = "admin") =>
            IF role_name_of(users[req'.cur]) = <<"admin">>
            THEN req'.pc = "body"
            ELSE req'.pc = "done" /\ req'.status = 403
       /\ (Presents /\ req'.cur # 0 /\ gate_of(req'.op) = "group_manager") =>
            IF role_name_of(users[req'.cur]) \in {<<"admin">>, <<"manager">>}
            THEN req'.pc = "body"
            ELSE req'.pc = "done" /\ req'.status = 403
       /\ (/\ req.pc = "body" /\ req.op = "get_group" /\ req' # req
           /\ req.group \in DOMAIN groups
           /\ <<req.cur, req.group>> \notin DOMAIN members) =>
            IF req.role \in {<<"admin">>, <<"manager">>}
            THEN req'.status = 200
            ELSE req'.status = 403
      ]_vars

\* a disabled account that was promoted to manager after its login, so that
\* its token still says "user", is let in by require_group_manager
C5_Witness ==
    /\ req.op = "create_group"
    /\ req.pc = "body"
    /\ req.cur \in DOMAIN users
    /\ role_name_of(users[req.cur]) = <<"manager">>
    /\ ~users[req.cur].is_active
    /\ \E k \in req.token : k.payload.role = <<"user">>

----------------------------------------------------------------------------
(* Claims about tokens, checked under SpecTokens *)

is_session_token(k) == "sub" \in DOMAIN k.payload

is_verification_token(k) ==
    "type" \in DOMAIN k.payload /\ k.payload.type = "email_verification"

is_password_reset_token(k) ==
    "type" \in DOMAIN k.payload /\ k.payload.type = "password_reset"

\* every token in a client's hands came from one of the three issuers
TokensHavePurpose ==
    \A k \in tokens :
        \/ \E id \in DOMAIN users, t \in IssueInstants : k = session_token(id, t)
        \/ \E id \in DOMAIN users, t \in IssueInstants :
              k = create_verification_token(id, users[id].email, t)
        \/ \E id \in DOMAIN users, t \in IssueInstants :
              k = create_password_reset_token(id, users[id].email, t)

\* the verification answered that it accepts the token presented
Accepted(r) ==
    IF r.op = "get_current_user_info" THEN r.status # 401 ELSE r.detail = "payload"

\* C6: a verification never accepts a token issued for another purpose:
\* verify_verification_token answers None for password-reset and session
\* tokens, verify_password_reset_token answers None for email-verification and
\* session tokens, get_current_user answers 401 for email-verification and
\* password-reset tokens, expired or not.
C6_PurposeSeparation ==
    [][Presents =>
         \A k \in req'.token :
            /\ (req'.op = "verify_verification_token"
                /\ (is_password_reset_token(k) \/ is_session_token(k))) => ~Accepted(req')
            /\ (req'.op = "verify_password_reset_token"
                /\ (is_verification_token(k) \/ is_session_token(k))) => ~Accepted(req')
            /\ (req'.op = "get_current_user_info"
                /\ (is_verification_token(k) \/ is_password_reset_token(k))) =>
                  ~Accepted(req') /\ req'.pc = "done"
      ]_vars

\* a password-reset token that has not expired was presented to
\* verify_verification_token, which answered None
C6_Witness ==
    /\ req.op = "verify_verification_token"
    /\ req.pc = "done"
    /\ req.detail = "None"
    /\ \E k \in req.token : is_password_reset_token(k) /\ ~jwt_decode_raises(k, now)

\* the time to live of the purpose of a token
ttl_of(k) == IF is_verification_token(k) THEN VerificationTicks
             ELSE IF is_password_reset_token(k) THEN PasswordResetTicks
             ELSE SessionTicks

\* the instants at which the token can have been issued
issue_instants(k) == {t0 \in IssueInstants : k.payload.exp = timegm(t0 + ttl_of(k))}

\* the token is presented to the verification of its own purpose
OwnPurpose(op, k) ==
    \/ op = "get_current_user_info" /\ is_session_token(k)
    \/ op = "verify_verification_token" /\ is_verification_token(k)
    \/ op = "verify_password_reset_token" /\ is_password_reset_token(k)

----------------------------------------------------------------------------
(* Claims about registration, checked under SpecRegister *)

\* the login that follows the accepted registration req' with the username
\* and the password of that registration
LoginAsRegistered ==
    /\ req.op = "register" /\ req.pc = "done" /\ req.status = 201
    /\ req'.op = "login" /\ req'.uname = req.uname /\ req'.pw = req.pw

\* the login got a token, and get_current_user on it returns the user that
\* the registration created, with the username username and, when no role was
\* asked for, the role "user"
RoundTrip(username) ==
    /\ req'.status = 200
    /\ \E k \in req'.issued :
          /\ get_current_user(k) = req.seen[1]
          /\ users[get_current_user(k)].username = username
          /\ req.rolearg = <<>> => role_name_of(users[get_current_user(k)]) = <<"user">>

\* C8 as stated: after register accepted a username, an email and a password,
\* the login with that username and that password returns a session token on
\* which get_current_user returns the registered principal, with that
\* username, and with role "user" when no role was requested.
C8_RegisterLoginRoundTrip == [][LoginAsRegistered => RoundTrip(req.uname)]_vars

\* C8 for credentials without leading or trailing whitespace: the round trip
\* succeeds.
C8_RoundTripWhenStripped ==
    [][(LoginAsRegistered /\ strip(req.uname) = req.uname /\ strip(req.pw) = req.pw)
          => RoundTrip(req.uname)]_vars

\* C8 for any accepted credentials, the login being made with them as
\* register stored them (stripped): the round trip succeeds.
C8_RoundTripWithStoredCredentials ==
    [][(/\ req.op = "register" /\ req.pc = "done" /\ req.status = 201
        /\ req'.op = "login" /\ req'.uname = strip(req.uname) /\ req'.pw = strip(req.pw))
          => RoundTrip(strip(req.uname))]_vars

\* a registration with whitespace around the username was accepted
C8_AcceptedUnstripped ==
    req.op = "register" /\ req.status = 201 /\ strip(req.uname) # req.uname

----------------------------------------------------------------------------
(* Claims about sessions, checked under SpecSession *)

\* the users whose username and password the login request carries
credentials_of(r) ==
    {id \in DOMAIN users : /\ users[id].username = r.uname
                           /\ verify_password(r.pw, users[id].hashed_password)}

\* C9: a login with the username and the password of an account whose active
\* flag is false is answered 403 and no token is issued.
C9_InactiveLoginForbidden ==
    [][(/\ req'.op = "login" /\ req'.pc = "done"
        /\ (req' # req \/ tokens' # tokens)
        /\ \E id \in credentials_of(req') : ~users[id].is_active)
          => /\ req'.status = 403
             /\ req'.issued = {}
             /\ tokens' = tokens]_vars

\* the login of a disabled account with its password was answered 403
C9_Witness ==
    /\ req.op = "login"
    /\ req.pc = "done"
    /\ req.status = 403
    /\ req.issued = {}
    /\ \E id \in credentials_of(req) : ~users[id].is_active

\* C10: a session token that has not expired, presented by an account whose
\* active flag is false, is accepted: get_current_user and
\* get_current_active_user resolve it to the account (no 401), /auth/me goes
\* on to answer it, and require_admin lets it in when its role is admin.
C10_DisabledTokenStillAccepted ==
    [][Presents =>
         \A k \in req'.token : \A id \in DOMAIN users :
            (/\ is_session_token(k)
             /\ users[id].username = k.payload.sub
             /\ ~users[id].is_active
             /\ ~jwt_decode_raises(k, now))
            => /\ req'.cur = id
               /\ req'.status # 401
               /\ gate_of(req'.op) = "active_user" => req'.pc = "body"
               /\ (gate_of(req'.op) = "admin" /\ role_name_of(users[id]) = <<"admin">>)
                     => req'.pc = "body"
      ]_vars

\* GET /users was answered 200 to an account that was disabled before the
\* request arrived
C10_Witness ==
    /\ req.op = "get_all_users"
    /\ req.pc = "done"
    /\ req.status = 200
    /\ req.cur \in DOMAIN users
    /\ ~users[req.cur].is_active
    /\ \E k \in req.token : k.payload.sub = users[req.cur].username

\* no stored user has the username of the login request
UnknownUsername(r) == \A id \in DOMAIN users : users[id].username # r.uname

\* a stored user has the username of the login request, and a password with
\* another digest than the one in the request
WrongPassword(r) ==
    \E id \in DOMAIN users :
        /\ users[id].username = r.uname
        /\ users[id].hashed_password.digest # _prehash_password(r.pw)

\* the step that answers a login request
LoginAnswered == req'.op = "login" /\ req'.pc = "done" /\ (req' # req \/ tokens' # tokens)

\* C12: a login with a username that no user has and a login with the
\* username of a user, active or not, and a wrong password get one and the
\* same response: 401 "Incorrect username or password", and no token.
C12_LoginDoesNotRevealUsername ==
    [][(LoginAnswered /\ (UnknownUsername(req') \/ WrongPassword(req'))) =>
        /\ req'.status = 401
        /\ req'.detail = "Incorrect username or password"
        /\ req'.issued = {}
        /\ tokens' = tokens]_vars

\* a login with the username of a stored user and a wrong password was
\* answered 401
C12_Witness ==
    /\ req.op = "login" /\ req.pc = "done" /\ req.status = 401
    /\ req.detail = "Incorrect username or password"
    /\ WrongPassword(req)

\* a login with a username that no user has was answered 401
C12_WitnessUnknown ==
    /\ req.op = "login" /\ req.pc = "done" /\ req.status = 401
    /\ req.detail = "Incorrect username or password"
    /\ UnknownUsername(req)

\* a login of a disabled account with a wrong password was answered 401
C12_WitnessDisabled ==
    /\ req.op = "login" /\ req.pc = "done" /\ req.status = 401
    /\ \E id \in DOMAIN users :
          users[id].username = req.uname /\ ~users[id].is_active /\ WrongPassword(req)

----------------------------------------------------------------------------
(* Claims about credentials, checked under SpecCredentials *)

ProtectedOps == AdminOps \cup AdminReads \cup AdminCreates \cup GroupManagerOps
                \cup {"get_group", "get_group_courses", "get_current_user_info"}

\* the token cannot authenticate anyone at this instant: it is signed with
\* another key, or has expired, or has no subject, or its subject is the
\* username of no stored user
CannotAuthenticate(k) ==
    \/ k.key # SECRET_KEY
    \/ k.payload.exp < timegm(now)
    \/ "sub" \notin DOMAIN k.payload
    \/ ("sub" \in DOMAIN k.payload
        /\ \A id \in DOMAIN users : users[id].username # k.payload.sub)

\* a request arrives at a protected endpoint
Arrives == ~InFlight /\ req' # req /\ req'.op \in ProtectedOps

\* C11: a request to a protected endpoint that carries no bearer token, or a
\* token that is signed with another key, has expired, has no subject or
\* names a subject that is no stored user, is answered 401 by its
\* dependencies, never reaches the handler body and changes no table; the
\* four token causes give the same detail.
C11_UnauthenticatedIs401 ==
    [][(Arrives /\ (req'.token = {} \/ \E k \in req'.token : CannotAuthenticate(k))) =>
        /\ req'.status = 401
        /\ req'.pc = "done"
        /\ req'.cur = 0
        /\ req'.token # {} => req'.detail = "Could not validate credentials"
        /\ UNCHANGED <<users, nextUserId, groups, nextGroupId, members, tokens>>]_vars

\* the token of a user that the admin has deleted was presented before its
\* expiry and answered 401
C11_Witness ==
    /\ req.pc = "done"
    /\ req.op \in ProtectedOps
    /\ req.status = 401
    /\ \E k \in req.token :
          /\ k.key = SECRET_KEY
          /\ k.payload.exp >= timegm(now)
          /\ "sub" \in DOMAIN k.payload
          /\ \A id \in DOMAIN users : users[id].username # k.payload.sub

\* a request without Authorization header was answered 401
C11_WitnessNoHeader ==
    req.pc = "done" /\ req.op \in ProtectedOps /\ req.token = {} /\ req.status = 401

\* the admin's token, after its expiry, was answered 401
C11_WitnessExpired ==
    /\ req.pc = "done" /\ req.op \in ProtectedOps /\ req.status = 401
    /\ \E k \in req.token : k = session_token(1, 0) /\ k.payload.exp < timegm(now)

\* a token with the admin's claims signed with another key was answered 401
C11_WitnessForged ==
    /\ req.pc = "done" /\ req.op \in ProtectedOps /\ req.status = 401
    /\ \E k \in req.token : k = Forged(session_token(1, 0)) /\ k.payload.exp >= timegm(now)

\* an email-verification token, which has no subject, was answered 401
C11_WitnessNoSubject ==
    /\ req.pc = "done" /\ req.op \in ProtectedOps /\ req.status = 401
    /\ \E k \in req.token : k.key = SECRET_KEY /\ "sub" \notin DOMAIN k.payload

----------------------------------------------------------------------------
(* Claims about accounts, checked under SpecAccounts *)

\* C13: no two stored users have the same username, and no two have the same
\* email, in every reachable state, registrations and creations with the same
\* username or email racing each other included.
C13_UsernamesAndEmailsUnique ==
    \A a, b \in DOMAIN users :
        a # b => users[a].username # users[b].username /\ users[a].email # users[b].email

\* a registration passed its checks, another client took the username
\* meanwhile, and the INSERT was refused
C13_Witness ==
    /\ req.op \in {"register", "create_user"}
    /\ req.pc = "done"
    /\ req.status = 500
    /\ \E id \in DOMAIN users : users[id].username = strip(req.uname)
    /\ \A id \in DOMAIN users : users[id].email # strip(req.email)

\* the step in which register or create_user runs its checks: register on
\* arrival, create_user after its dependencies admitted an admin
ChecksAccount ==
    \/ ~InFlight /\ req'.op = "register" /\ req' # req
    \/ req.op = "create_user" /\ req.pc = "body" /\ req' # req

\* the username or the email of the request, stripped as the handler strips
\* it, is that of a stored user
Taken(r) ==
    \E id \in DOMAIN users :
        users[id].username = strip(r.uname) \/ users[id].email = strip(r.email)

DuplicateDetails(op) ==
    IF op = "register" THEN {"Username already registered", "Email already registered"}
    ELSE {"Username already exists", "Email already exists"}

\* C14: register, and create_user requested by an admin, with a username or
\* an email that a stored user has, is answered 400 by the handler's checks
\* (with the duplicate detail when password and role are valid), goes on to
\* no INSERT, and leaves the users table as it is.
C14_DuplicateRejected ==
    [][(ChecksAccount /\ Taken(req')) =>
        /\ req'.status = 400
        /\ req'.pc = "done"
        /\ (strip(req'.pw) # <<>> /\ register_role_name(req'.rolearg) \in valid_roles)
              => req'.detail \in DuplicateDetails(req'.op)
        /\ users' = users
        /\ nextUserId' = nextUserId]_vars

\* a registration with a new username and the email of a stored user was
\* answered 400
C14_Witness ==
    /\ req.op = "register"
    /\ req.pc = "done"
    /\ req.status = 400
    /\ req.detail = "Email already registered"
    /\ \A id \in DOMAIN users : users[id].username # strip(req.uname)
    /\ \E id \in DOMAIN users : users[id].email = strip(req.email)

\* a creation by the admin with the username of a stored user was answered 400
C14_WitnessCreateUser ==
    /\ req.op = "create_user"
    /\ req.pc = "done"
    /\ req.status = 400
    /\ req.detail = "Username already exists"
    /\ \E id \in DOMAIN users : users[id].username = strip(req.uname)

----------------------------------------------------------------------------
(* Claims about racing membership requests, checked under SpecOwners *)

\* the observed add_member_to_group found no membership for its pair, and
\* reaches its INSERT after another request has added the pair
LostAddRace ==
    /\ req.op = "add_member_to_group"
    /\ req.pc = "commit"
    /\ req' # req
    /\ <<req.target, req.group>> \in DOMAIN members

\* C15 as stated: of two add_member_to_group requests for the same pair that
\* both found no membership, the one that comes second is answered with the
\* duplicate-membership error, and one membership exists for the pair.
C15_LoserGetsConflict ==
    [][LostAddRace =>
        /\ req'.status = 400
        /\ req'.detail = "User is already a member of this group"
        /\ members' = members]_vars

\* C15 without the kind of the error: the request that comes second does not
\* succeed and the membership of the first stays as it is.
C15_LoserFails ==
    [][LostAddRace =>
        /\ req'.pc = "done"
        /\ req'.status = 500
        /\ members' = members]_vars

\* the request that came second in the race was answered 500
C15_LostRaceAnswered500 ==
    /\ req.op = "add_member_to_group"
    /\ req.pc = "done"
    /\ req.status = 500
    /\ <<req.target, req.group>> \in DOMAIN members

\* the observed request found another owner beside the one it removes or
\* demotes, and reaches its commit after another request has removed or
\* demoted that other owner
LostOwnerRace ==
    /\ req.pc = "commit"
    /\ req' # req
    /\ TakesOwnerAway(req)
    /\ req.op = "update_member_role" => req.seen = <<"owner">>
    /\ other_owners(req.group, req.target) = {}

\* C16 as stated: of two concurrent requests that each remove or demote a
\* different one of the two owners of a group, at most one succeeds: the one
\* that commits second is refused and the group keeps its owner.
C16_AtMostOneSucceeds ==
    [][LostOwnerRace =>
        /\ req'.status \notin {200, 204}
        /\ members' = members]_vars

\* both requests succeeded: the second was answered 200 or 204 and the group,
\* which still exists, has no owner
C16_BothSucceeded ==
    /\ req.op \in {"remove_member_from_group", "update_member_role"}
    /\ req.pc = "done"
    /\ req.status \in {200, 204}
    /\ req.group \in DOMAIN groups
    /\ owners_of(req.group) = {}

----------------------------------------------------------------------------
(* Claims about access to a group, checked under SpecAccess *)

GroupViews == {"get_group", "get_group_courses"}

\* C17: get_group and get_group_courses answer 404 for a group id that does
\* not exist, whoever asks; for a group that exists they answer 200 exactly
\* when the system role of the principal is admin or manager or a membership
\* of the principal in the group exists, and 403 otherwise; they write nothing.
C17_ViewIffAccess ==
    [][(req.pc = "body" /\ req.op \in GroupViews /\ req' # req) =>
        /\ req'.pc = "done"
        /\ req'.status =
              IF req.group \notin DOMAIN groups THEN 404
              ELSE IF \/ req.role \in {<<"admin">>, <<"manager">>}
                      \/ <<req.cur, req.group>> \in DOMAIN members
              THEN 200
              ELSE 403
        /\ UNCHANGED <<users, groups, members>>]_vars

\* a plain user that is a member of the group was shown its courses
C17_Witness ==
    /\ req.op = "get_group_courses"
    /\ req.pc = "done"
    /\ req.status = 200
    /\ req.role = <<"user">>
    /\ <<req.cur, req.group>> \in DOMAIN members

\* a plain user that is no member of the group was refused
C17_WitnessForbidden ==
    /\ req.op = "get_group"
    /\ req.pc = "done"
    /\ req.status = 403
    /\ req.role = <<"user">>
    /\ req.group \in DOMAIN groups
    /\ <<req.cur, req.group>> \notin DOMAIN members

\* a manager that is no member of the group was shown it
C17_WitnessManager ==
    /\ req.op = "get_group"
    /\ req.pc = "done"
    /\ req.status = 200
    /\ req.role = <<"manager">>
    /\ <<req.cur, req.group>> \notin DOMAIN members

\* a plain user asked for a group that does not exist
C17_WitnessNotFound ==
    /\ req.op \in GroupViews
    /\ req.pc = "done"
    /\ req.status = 404
    /\ req.role = <<"user">>
    /\ req.group \notin DOMAIN groups

GroupWrites == {"update_group", "delete_group", "add_member_to_group",
                "remove_member_from_group", "update_member_role"}

\* C18: a request to update_group, delete_group, add_member_to_group,
\* remove_member_from_group or update_member_role of a principal whose system
\* role is "user" is answered 403 by its dependencies, never reaches the
\* handler body, and leaves groups and memberships unchanged, whether the
\* principal is no member, member, moderator or owner of the group.
C18_UserCannotWriteGroups ==
    [][(/\ ~InFlight /\ req' # req /\ req'.op \in GroupWrites
        /\ req'.cur # 0 /\ role_name_of(users[req'.cur]) = <<"user">>) =>
        /\ req'.status = 403
        /\ req'.pc = "done"
        /\ UNCHANGED <<groups, members, users>>]_vars

\* a plain user that is owner of the group asked to delete it and was refused
C18_Witness ==
    /\ req.op = "delete_group"
    /\ req.pc = "done"
    /\ req.status = 403
    /\ req.role = <<"user">>
    /\ req.group \in DOMAIN groups
    /\ <<req.cur, req.group>> \in DOMAIN members
    /\ members[<<req.cur, req.group>>] = <<"owner">>

\* a plain user that is moderator of the group asked to rename it
C18_WitnessModerator ==
    /\ req.op = "update_group"
    /\ req.pc = "done"
    /\ req.status = 403
    /\ <<req.cur, req.group>> \in DOMAIN members
    /\ members[<<req.cur, req.group>>] = <<"moderator">>

\* a plain user that is member of the group asked to change its own role
C18_WitnessMember ==
    /\ req.op = "update_member_role"
    /\ req.pc = "done"
    /\ req.status = 403
    /\ req.target = req.cur
    /\ <<req.cur, req.group>> \in DOMAIN members
    /\ members[<<req.cur, req.group>>] = <<"member">>

----------------------------------------------------------------------------
(* Claims about system roles, checked under SpecAccounts *)

\* the INSERT of a registration that is answered 201
Registers == req.op = "register" /\ req.pc = "commit" /\ req'.status = 201

\* the observed request was made with the credentials of an admin
ByAdmin(r) == r.cur # 0 /\ r.role = <<"admin">>

\* C19 as stated: a registration creates a user with a role other than
\* "user" only when an admin makes the request.
C19_RegisterRoleNeedsAdmin ==
    [][Registers =>
        (role_name_of(users'[req'.seen[1]]) # <<"user">> => ByAdmin(req))]_vars

\* what register does: the role of the user created is the role the request
\* names, lowered and stripped, or "user" when it names none, whoever asks.
C19_RegisterGivesRequestedRole ==
    [][Registers =>
        role_name_of(users'[req'.seen[1]]) = register_role_name(req.rolearg)]_vars

\* a registration without credentials created a manager
C19_ManagerRegistered ==
    /\ req.op = "register"
    /\ req.pc = "done"
    /\ req.status = 201
    /\ req.token = {}
    /\ req.seen[1] \in DOMAIN users
    /\ role_name_of(users[req.seen[1]]) = <<"manager">>

\* the step in which a handler validates the role name of the request
ValidatesRole ==
    \/ ~InFlight /\ req'.op = "register" /\ req' # req
    \/ /\ req.op \in {"create_user", "update_user_role", "change_user_role"}
       /\ req.pc = "body" /\ req' # req

\* the role name the request carries is none of user, manager, admin in any
\* case of letters and with any whitespace around it; a registration or
\* creation without a role, or with a blank one, carries none
OtherRoleName(r) ==
    IF r.op \in {"register", "create_user"}
    THEN r.rolearg # <<>> /\ strip(r.rolearg) # <<>>
         /\ strip(lower(r.rolearg)) \notin {<<"user">>, <<"manager">>, <<"admin">>}
    ELSE strip(lower(r.rolearg)) \notin {<<"user">>, <<"manager">>, <<"admin">>}

\* every stored user has one role, and it is user, manager or admin
RolesValid ==
    \A id \in DOMAIN users :
        /\ Cardinality({r \in Roles : r.id = users[id].role_id}) = 1
        /\ role_name_of(users[id]) \in {<<"user">>, <<"manager">>, <<"admin">>}

\* C20: in every reachable state every stored user has exactly one system
\* role, one of user, manager, admin; and register, create_user,
\* update_user_role and change_user_role answer a request with any other role
\* name 400 and leave the users table as it is.
C20_OneValidRole ==
    /\ []RolesValid
    /\ [][(ValidatesRole /\ OtherRoleName(req')) =>
            /\ req'.status = 400
            /\ req'.pc = "done"
            /\ users' = users
            /\ nextUserId' = nextUserId]_vars

\* a role change to an unknown role name was answered 400 and the role of the
\* user, a manager that was registered, is as it was
C20_Witness ==
    /\ req.op \in {"update_user_role", "change_user_role"}
    /\ req.pc = "done"
    /\ req.status = 400
    /\ req.detail = "Invalid role. Must be one of: admin, manager, user"
    /\ req.target \in DOMAIN users
    /\ req.target # req.cur
    /\ role_name_of(users[req.target]) = <<"manager">>

\* a registration with an unknown role name was answered 400
C20_WitnessRegister ==
    /\ req.op = "register"
    /\ req.pc = "done"
    /\ req.status = 400
    /\ req.detail = "Invalid role. Must be one of: admin, manager, user"
    /\ \A id \in DOMAIN users : users[id].username # strip(req.uname)

----------------------------------------------------------------------------
(* Claims about the creation of a group, checked under SpecOwners *)

\* the second commit of a create_group that is answered 201
GroupCreated == req.op = "create_group" /\ req.pc = "commit2" /\ req'.status = 201

\* C21 as stated: when create_group succeeds, the creator holds an "owner"
\* membership in the new group and the group has exactly one member.
C21_CreatorIsOnlyMember ==
    [][GroupCreated =>
        /\ <<req.cur, req.seen[1]>> \in DOMAIN members'
        /\ members'[<<req.cur, req.seen[1]>>] = <<"owner">>
        /\ {m \in DOMAIN members' : m[2] = req.seen[1]} = {<<req.cur, req.seen[1]>>}]_vars

\* C21 without the count: when create_group succeeds the creator holds an
\* "owner" membership in the new group, and is its only member when no other
\* request added a member between the two commits.
C21_CreatorIsOwner ==
    [][GroupCreated =>
        /\ <<req.cur, req.seen[1]>> \in DOMAIN members'
        /\ members'[<<req.cur, req.seen[1]>>] = <<"owner">>
        /\ {m \in DOMAIN members : m[2] = req.seen[1]} = {} =>
              {m \in DOMAIN members' : m[2] = req.seen[1]} = {<<req.cur, req.seen[1]>>}]_vars

\* create_group was answered 201 and the new group has two members
C21_CreatedWithTwoMembers ==
    /\ req.op = "create_group"
    /\ req.pc = "done"
    /\ req.status = 201
    /\ Cardinality({m \in DOMAIN members : m[2] = req.seen[1]}) = 2

----------------------------------------------------------------------------
(* Claims about the round trip of a token, checked under SpecRoundTrip *)

\* the token of create_access_token(args) has been decoded at the instant of
\* its issue
DecodedAtOnce == req.op = "jwt_decode" /\ now = req.args[3]

C22_WitnessOwnExp ==
    /\ DecodedAtOnce
    /\ "exp" \in DOMAIN req.args[1]
    /\ req.seen[1].exp # req.args[1].exp

----------------------------------------------------------------------------
(* Claims about the hasher, checked under SpecHasher *)

\* the passwords that are hashed: those given, and those register strips
HashedPasswords == PasswordInputs \cup {strip(p) : p \in PasswordInputs}

C23_WitnessTrue ==
    /\ req.op = "verify_password"
    /\ \E id \in DOMAIN users : id > 1 /\ req.args[1] = users[id].hashed_password
    /\ req.detail = "True"

\* C24 as stated: verify_password answers False for a malformed stored hash,
\* and a login against a user with such a hash is answered 401
C24_MalformedHashIsWrongPassword ==
    /\ req.op = "verify_password" /\ req.args[1] = DummyHash => req.detail = "False"
    /\ /\ req.op = "login" /\ req.pc = "done"
       /\ \E id \in get_user_by_username(req.uname) : users[id].hashed_password = DummyHash
       => req.status = 401

\* what happens instead: the ValueError of bcrypt.checkpw reaches the caller,
\* and the login is answered 500
C24_MalformedHashRaises ==
    /\ req.op = "verify_password" /\ req.args[1] = DummyHash => req.detail = "ValueError"
    /\ /\ req.op = "login" /\ req.pc = "done"
       /\ \E id \in get_user_by_username(req.uname) : users[id].hashed_password = DummyHash
       => req.status = 500

\* a login as the admin of the fixtures has been answered 500
C24_LoginAnswered500 ==
    /\ req.op = "login" /\ req.pc = "done"
    /\ req.uname = <<"admin">>
    /\ req.status = 500

----------------------------------------------------------------------------
(* Claims about the order of the checks of group edits, checked under         *)
(* SpecAccess                                                                 *)

GroupEdits == {"update_group", "delete_group"}

\* a request to edit a group that does not exist, made with the session token
\* of a user, is answered in this step
MissingGroupAnswered ==
    /\ req' # req
    /\ req'.pc = "done"
    /\ req'.op \in GroupEdits
    /\ req'.group \notin DOMAIN groups
    /\ req'.cur # 0

\* C25: update_group and delete_group for a group id that does not exist are
\* answered 403 to a principal with system role "user" and 404 to an admin or
\* a manager, and change nothing
C25_RoleCheckBeforeLookup ==
    [][MissingGroupAnswered =>
        /\ role_name_of(users[req'.cur]) = <<"user">> => req'.status = 403
        /\ role_name_of(users[req'.cur]) \in {<<"admin">>, <<"manager">>} =>
              req'.status = 404
        /\ UNCHANGED <<users, groups, members>>]_vars

\* a plain user asked to delete a group that does not exist and was refused
C25_Witness ==
    /\ req.op = "delete_group"
    /\ req.pc = "done"
    /\ req.status = 403
    /\ req.role = <<"user">>
    /\ req.group \notin DOMAIN groups

\* a manager asked to rename a group that does not exist
C25_WitnessManager ==
    /\ req.op = "update_group"
    /\ req.pc = "done"
    /\ req.status = 404
    /\ req.role = <<"manager">>
    /\ req.group \notin DOMAIN groups

\* an admin asked to delete a group that does not exist
C25_WitnessAdmin ==
    /\ req.op = "delete_group"
    /\ req.pc = "done"
    /\ req.status = 404
    /\ req.role = <<"admin">>
    /\ req.group \notin DOMAIN groups

----------------------------------------------------------------------------
(* Claims about role changes and tokens issued before them, checked under     *)
(* SpecGates                                                                  *)

\* the step that resolves the dependencies of a request to an endpoint behind
\* require_admin, made with a session token of a stored user
PresentsToAdminGate ==
    /\ ~InFlight
    /\ req' # req
    /\ req'.op \in AdminOps \cup AdminReads
    /\ req'.token # {}
    /\ req'.cur # 0

\* C26: require_admin decides on the role stored for the principal when the
\* request is made: a token issued while its principal was admin is answered
\* 403 once the principal's role is user, and a token issued while its
\* principal was user is let through once the principal's role is admin.
C26_StoredRoleNotRoleClaim ==
    [][PresentsToAdminGate =>
        \A k \in req'.token :
            /\ (k.payload.role = <<"admin">> /\ role_name_of(users[req'.cur]) = <<"user">>)
                  => (req'.pc = "done" /\ req'.status = 403)
            /\ (k.payload.role = <<"user">> /\ role_name_of(users[req'.cur]) = <<"admin">>)
                  => req'.pc = "body"]_vars

\* the token of an admin whose role has been changed to user was refused
C26_Witness ==
    /\ req.op \in AdminOps \cup AdminReads
    /\ req.pc = "done"
    /\ req.status = 403
    /\ req.cur \in DOMAIN users
    /\ role_name_of(users[req.cur]) = <<"user">>
    /\ \E k \in req.token : k.payload.role = <<"admin">>

\* the token of a user whose role has been changed to admin was let through
C26_WitnessPromoted ==
    /\ req.op \in AdminOps \cup AdminReads
    /\ req.pc = "body"
    /\ req.cur \in DOMAIN users
    /\ role_name_of(users[req.cur]) = <<"admin">>
    /\ \E k \in req.token : k.payload.role = <<"user">>

----------------------------------------------------------------------------
(* Claims about tokens of deleted principals, checked under SpecReuse *)

\* C27 as stated: a session token authenticates no principal but the one it
\* was issued to, whose id it carries
C27_TokenAuthenticatesItsPrincipalOnly ==
    (req.op = "get_current_user_info" /\ req.cur # 0) =>
        \A k \in req.token : k.payload.user_id = req.cur

\* what holds: the token of a deleted principal is answered 401 as long as no
\* user has the username the token names
C27_RejectedWhileUsernameIsFree ==
    [][(/\ ~InFlight /\ req' # req /\ req'.op = "get_current_user_info"
        /\ \E k \in req'.token : get_user_by_username(k.payload.sub) = {})
        => (req'.pc = "done" /\ req'.status = 401)]_vars

\* the token of the deleted bob has been answered with the profile of the new
\* user that registered as bob
C27_TokenAuthenticatesNamesake ==
    /\ req.op = "get_current_user_info"
    /\ req.pc = "done"
    /\ req.status = 200
    /\ req.cur = 3
    /\ \E k \in req.token : k.payload.user_id = 2 /\ k.payload.sub = <<"bob">>

\* the token of the deleted bob has been refused
C27_DeletedRefused ==
    /\ req.op = "get_current_user_info"
    /\ req.pc = "done"
    /\ req.status = 401
    /\ 2 \notin DOMAIN users
    /\ \E k \in req.token : k.payload.user_id = 2

----------------------------------------------------------------------------
(* Claims about the last admin, checked under Spec *)

Admins == {id \in DOMAIN users : role_name_of(users[id]) = <<"admin">>}

\* C28 as stated: an admin exists at every moment, whatever requests to
\* update_user_role, change_user_role and delete_user interleave
C28_AnAdminRemains == Admins # {}

\* what holds: a step of a request leaves an admin in place as long as the
\* principal that made the request is still an admin when the step is taken
C28_AdminRemainsWhileRequesterIsAdmin ==
    [][(InFlight /\ req' # req /\ req.cur \in Admins) => Admins' # {}]_vars

\* a request to change a role was answered 200 and no admin is left, while
\* both users are still stored
C28_BothDemoted ==
    /\ req.op \in {"update_user_role", "change_user_role"}
    /\ req.pc = "done"
    /\ req.status = 200
    /\ DOMAIN users = {1, 2}
    /\ Admins = {}

\* a request to delete a user was answered 204 and no user is left
C28_BothDeleted ==
    /\ req.op = "delete_user"
    /\ req.pc = "done"
    /\ req.status = 204
    /\ DOMAIN users = {}

----------------------------------------------------------------------------
(* Claims about reading courses, checked under SpecCourses *)

\* the ids get_all_courses would return to the caller of the request req
ListedToCaller == get_all_courses_body(req).seen[1]

CourseRead == req.op = "get_course" /\ req.pc = "done" /\ req.status = 200

\* C29 as stated: get_course returns a course to a principal that is no admin
\* only if get_all_courses returns that course to it
C29_ReadOnlyIfListed ==
    (CourseRead /\ req.role # <<"admin">>) => req.course \in ListedToCaller

\* what holds: get_course answers 200 exactly when the course exists, and 404
\* otherwise, whoever the authenticated caller is
C29_ReadIffExists ==
    (req.op = "get_course" /\ req.pc = "done" /\ req.cur # 0) =>
        IF req.course \in SeededCourses THEN req.status = 200 ELSE req.status = 404

\* a manager that is in no group has read course 2, which is assigned to no
\* group
C29_UnlistedCourseRead ==
    /\ CourseRead
    /\ req.role = <<"manager">>
    /\ req.course = 2
    /\ ListedToCaller = {}

\* a plain user has been listed course 1 of its group
C29_CourseListed ==
    /\ req.op = "get_all_courses"
    /\ req.pc = "done"
    /\ req.role = <<"user">>
    /\ req.seen = <<{1}>>

----------------------------------------------------------------------------
(* Claims about what a login discloses of a disabled account, checked under   *)
(* SpecSession                                                                *)

\* the password of the login r is the one stored for the user named in it
CorrectPassword(r) ==
    \E id \in DOMAIN users :
        /\ users[id].username = r.uname
        /\ verify_password(r.pw, users[id].hashed_password)

DisabledAccount(r) ==
    \E id \in DOMAIN users : users[id].username = r.uname /\ ~users[id].is_active

\* C30: a login is answered 403 only when the password is correct (and the
\* account disabled); a login to a disabled account with a wrong password is
\* answered 401 "Incorrect username or password", as for an unknown username
C30_DisabledDisclosedOnlyWithPassword ==
    [][LoginAnswered =>
        /\ req'.status = 403 => (CorrectPassword(req') /\ DisabledAccount(req'))
        /\ (DisabledAccount(req') /\ ~CorrectPassword(req')) =>
              /\ req'.status = 401
              /\ req'.detail = "Incorrect username or password"]_vars

\* a login to a disabled account with its password was answered 403
C30_Witness ==
    /\ req.op = "login" /\ req.pc = "done"
    /\ req.status = 403
    /\ req.detail = "Your account has been disabled. Please contact an administrator."
    /\ CorrectPassword(req) /\ DisabledAccount(req)

\* a login to a disabled account with another password was answered 401
C30_WitnessWrongPassword ==
    /\ req.op = "login" /\ req.pc = "done"
    /\ req.status = 401
    /\ DisabledAccount(req) /\ ~CorrectPassword(req)
====
